---- MODULE Spec2Model ----
(***************************************************************************)
(* Model of the trust layer of the BitGo JavaScript SDK:                   *)
(*   - the v2 request signing / response verification patch of superagent  *)
(*     requests (src/src/bitgo.js, createPatch),                           *)
(*   - token issuance (BitGo.prototype.handleTokenIssuance),               *)
(*   - the XRP coin: address validation and the recovery transaction       *)
(*     builder (src/unnamed/part_000, the Xrp prototype),                  *)
(*   - the session of a BitGo object (authenticate, logout,                *)
(*     addAccessToken) and the cache of client constants,                  *)
(*   - wallet generation (src/src/v2/wallets.js, generateWallet) with the  *)
(*     XRP supplement, explainTransaction, and the requests recover makes  *)
(*     to the ledger node.                                                 *)
(*                                                                         *)
(* Text is modelled as sequences of one-character strings, so that joins,  *)
(* splits and integer parsing are computed as the code computes them.      *)
(* JavaScript numbers that exceed the model checker's integers (2^32,      *)
(* 2^53) are modelled as sign + sequence of decimal digits.                *)
(***************************************************************************)
EXTENDS Integers, Sequences, FiniteSets, TLC

VARIABLES
    \* ---- Xrp.prototype.isValidAddress ----
    address,        \* the argument of isValidAddress
    addrPc,         \* "call" | "returned"
    addrResult,     \* what the call returned and the values it parsed
    \* ---- Xrp.prototype.recover ----
    recPc,          \* position in the promise chain / handler of recover
    recIn,          \* params and keys of the recover call
    recCalls,       \* the requests recover has created, each with its url
    ledger,         \* responses of the three rippled calls
    recLocals,      \* reserve and recoverableBalance once computed
    recTx,          \* the transaction object built (or NoTx)
    recSigs,        \* the partial signatures made so far
    recOut,         \* what the promise resolved with (or NoOut)
    recErr,         \* the error the promise rejected with ("" if none)
    recTrace,       \* the stages the handler has run, in order
    \* ---- BitGo.prototype.handleTokenIssuance ----
    issPc,          \* "call" | "returned" | "thrown"
    issIn,          \* this._ecdhXprv, responseBody, password
    issOut,         \* the response object returned (or NoIssue)
    issErr,         \* the error thrown: [thrown, errorCode]
    \* ---- BitGo session and one patched superagent request ----
    token,          \* bitgo._token
    req,            \* the request object created by createPatch
    wire,           \* the request as handed to prototypicalEnd (or NoWire)
    served,         \* what the server sent and the path it signed (or NoServed)
    response,       \* the response as the client received it (or NoResponse)
    verdict,        \* outcome of req.verifyResponse
    \* ---- Xrp.prototype.supplementGenerateWallet ----
    bootPc,         \* "CALL" | "FEE_INFO" | "DONE" | "THROWN" | "REJECTED"
    bootIn,         \* keychains, walletParams.rootPrivateKey, the random key
    bootLocals,     \* the addresses and the root key pair once derived
    bootOut,        \* walletParams as returned (or NoWalletParams)
    bootErr,        \* the error thrown or rejected with ("" if none)
    bootCalls,      \* the requests supplementGenerateWallet has created
    \* ---- the session of a BitGo object and the calls made on it ----
    user,           \* bitgo._user
    refreshToken,   \* bitgo._refreshToken
    sessEcdhXprv,   \* bitgo._ecdhXprv
    call,           \* the call in progress or finished last, and its request
    sent,           \* every request handed to the network, in order
    \* ---- BitGo.prototype.fetchConstants and getConstants ----
    now,            \* the time new Date() and moment.utc() give
    constants,      \* BitGo._constants, by environment
    constantsExpire,\* BitGo._constantsExpire, by environment
    constantFetches,\* the requests for /client/constants not yet answered
    constantsRead,  \* what the read made last was given
    \* ---- Wallets.prototype.generateWallet ----
    genPc,          \* position in the promise chain of generateWallet
    genIn,          \* params of the call
    genKeychains,   \* the three keychain promises and the ids they gave
    genRequests,    \* the requests made to the server so far
    genWalletParams,\* walletParams once built (or NoGenWalletParams)
    genOut,         \* what the call resolved or was rejected with
    explPc,         \* position in a call of explainTransaction
    explIn,         \* params.txHex of the call
    explTx,         \* the transaction decoded or parsed from it
    explOut,        \* what the call returned or threw
    ledgCalls,      \* the requests of recover to the ledger node, by method
    ledgOut,        \* whether recover went on to its handler or was rejected
    extensionKey,   \* BitGo._extensionKey
    authCall        \* the call of authenticate made last

addrVars == <<address, addrPc, addrResult>>
recVars  == <<recPc, recIn, recCalls, ledger, recLocals, recTx, recSigs, recOut, recErr, recTrace>>
issVars  == <<issPc, issIn, issOut, issErr>>
chanVars == <<token, req, wire, served, response, verdict>>
bootVars == <<bootPc, bootIn, bootLocals, bootOut, bootErr, bootCalls>>
sessVars == <<user, refreshToken, sessEcdhXprv, call, sent>>
cacheVars == <<now, constants, constantsExpire, constantFetches, constantsRead>>
genVars  == <<genPc, genIn, genKeychains, genRequests, genWalletParams, genOut>>
explVars == <<explPc, explIn, explTx, explOut>>
ledgVars == <<ledgCalls, ledgOut>>
authVars == <<extensionKey, authCall>>
vars     == <<addrVars, recVars, issVars, chanVars, bootVars, sessVars, cacheVars, genVars, explVars, ledgVars, authVars>>

-----------------------------------------------------------------------------
(* Text helpers *)

DigitChars == <<"0", "1", "2", "3", "4", "5", "6", "7", "8", "9">>
IsDigitChar(c) == \E i \in 1..10 : DigitChars[i] = c
DigitVal(c) == (CHOOSE i \in 1..10 : DigitChars[i] = c) - 1
DigitChar(d) == DigitChars[d + 1]

\* String.prototype.indexOf for a single character, 1-based; 0 when absent
IndexOf(s, c) ==
    IF \E i \in 1..Len(s) : s[i] = c
    THEN CHOOSE i \in 1..Len(s) : s[i] = c /\ \A j \in 1..(i - 1) : s[j] # c
    ELSE 0

RECURSIVE Flatten(_)
Flatten(ss) == IF ss = <<>> THEN <<>> ELSE Head(ss) \o Flatten(Tail(ss))

\* Array.prototype.join(sep) over an array of strings
RECURSIVE JoinWith(_, _)
JoinWith(parts, sep) ==
    IF parts = <<>> THEN <<>>
    ELSE IF Len(parts) = 1 THEN parts[1]
    ELSE parts[1] \o sep \o JoinWith(Tail(parts), sep)

\* String.prototype.split(sep) for a single character separator
RECURSIVE SplitOn(_, _)
SplitOn(s, c) ==
    LET i == IndexOf(s, c) IN
    IF i = 0 THEN <<s>>
    ELSE <<SubSeq(s, 1, i - 1)>> \o SplitOn(SubSeq(s, i + 1, Len(s)), c)

\* optional values (null / undefined against a string)
None == [some |-> FALSE, v |-> <<>>]
Some(x) == [some |-> TRUE, v |-> x]

\* const name = value; ...: the value is computed once and the rest uses it
With(value, Rest(_)) == Rest(value)

-----------------------------------------------------------------------------
(* JavaScript numbers as sign and magnitude in decimal digits *)

NaN == [nan |-> TRUE, neg |-> FALSE, mag |-> <<>>]
Num(neg, mag) == [nan |-> FALSE, neg |-> neg, mag |-> mag]

RECURSIVE StripZeros(_)
StripZeros(ds) ==
    IF Len(ds) > 1 /\ ds[1] = 0 THEN StripZeros(Tail(ds)) ELSE ds

\* magnitude of a natural number of the model checker
RECURSIVE NatDigits(_)
NatDigits(n) == IF n < 10 THEN <<n>> ELSE NatDigits(n \div 10) \o <<n % 10>>

\* a < b on canonical digit sequences
MagLess(a, b) ==
    \/ Len(a) < Len(b)
    \/ /\ Len(a) = Len(b)
       /\ \E i \in 1..Len(a) :
            /\ a[i] < b[i]
            /\ \A j \in 1..(i - 1) : a[j] = b[j]

IsZeroMag(m) == m = <<0>>

\* 0xFFFFFFFF = 4294967295
UINT32_MAX == <<4, 2, 9, 4, 9, 6, 7, 2, 9, 5>>
\* Number.MAX_SAFE_INTEGER = 2^53 - 1 = 9007199254740991
MAX_SAFE_INTEGER == <<9, 0, 0, 7, 1, 9, 9, 2, 5, 4, 7, 4, 0, 9, 9, 1>>

\* Number.isSafeInteger
IsSafeInteger(n) == ~n.nan /\ ~MagLess(MAX_SAFE_INTEGER, n.mag)

\* Number.isInteger on the result of parseInt (an integer or NaN; the
\* magnitudes of the model stay below the overflow to Infinity)
IsInteger(n) == ~n.nan

\* String(n) for an integer below 10^21: "-" and the decimal digits; -0 is "0"
NumberToString(n) ==
    (IF n.neg /\ ~IsZeroMag(n.mag) THEN <<"-">> ELSE <<>>)
        \o [i \in 1..Len(n.mag) |-> DigitChar(n.mag[i])]

IsHexChar(c) == IsDigitChar(c) \/ c \in {"a", "b", "c", "d", "e", "f"}
HexVal(c) ==
    IF IsDigitChar(c) THEN DigitVal(c)
    ELSE CASE c = "a" -> 10 [] c = "b" -> 11 [] c = "c" -> 12
           [] c = "d" -> 13 [] c = "e" -> 14 [] c = "f" -> 15

RECURSIVE HexToNat(_, _)
HexToNat(s, acc) ==
    IF s = <<>> THEN acc ELSE HexToNat(Tail(s), acc * 16 + HexVal(Head(s)))

WhiteSpace == {" "}

RECURSIVE TrimLeft(_)
TrimLeft(s) ==
    IF s # <<>> /\ Head(s) \in WhiteSpace THEN TrimLeft(Tail(s)) ELSE s

RECURSIVE TrimRight(_)
TrimRight(s) ==
    IF s # <<>> /\ s[Len(s)] \in WhiteSpace
    THEN TrimRight(SubSeq(s, 1, Len(s) - 1)) ELSE s

Trim(s) == TrimRight(TrimLeft(s))

\* longest prefix of s whose characters satisfy the digit test of the radix
RECURSIVE DigitPrefix(_, _)
DigitPrefix(s, hex) ==
    IF s # <<>> /\ (IF hex THEN IsHexChar(Head(s)) ELSE IsDigitChar(Head(s)))
    THEN <<Head(s)>> \o DigitPrefix(Tail(s), hex)
    ELSE <<>>

\* the global parseInt(string) with no radix argument (ECMAScript 18.2.5):
\* leading white space is skipped, a sign is read, "0x" selects radix 16, the
\* longest prefix of digits is converted and whatever follows is ignored
ParseInt(str) ==
    With(TrimLeft(str), LAMBDA s0 :
    With(s0 # <<>> /\ Head(s0) = "-", LAMBDA neg :
    With(IF s0 # <<>> /\ Head(s0) \in {"-", "+"} THEN Tail(s0) ELSE s0, LAMBDA s1 :
    With(Len(s1) >= 2 /\ s1[1] = "0" /\ s1[2] = "x", LAMBDA hex :
    With(DigitPrefix(IF hex THEN SubSeq(s1, 3, Len(s1)) ELSE s1, hex), LAMBDA z :
        IF z = <<>> THEN NaN
        ELSE IF hex THEN Num(neg, NatDigits(HexToNat(z, 0)))
        ELSE Num(neg, StripZeros([i \in 1..Len(z) |-> DigitVal(z[i])])))))))

-----------------------------------------------------------------------------
(* Node's url.parse and querystring.parse, as far as the code relies on them *)

\* position of the first occurrence of the two-character text "//" ; 0 if none
SlashesAt(s) ==
    IF \E i \in 1..(Len(s) - 1) : s[i] = "/" /\ s[i + 1] = "/"
    THEN CHOOSE i \in 1..(Len(s) - 1) :
            /\ s[i] = "/" /\ s[i + 1] = "/"
            /\ \A j \in 1..(i - 1) : ~(s[j] = "/" /\ s[j + 1] = "/")
    ELSE 0

\* url.parse escapes the characters of its autoEscape list; of these the
\* model's alphabet holds the space
RECURSIVE AutoEscape(_)
AutoEscape(s) ==
    IF s = <<>> THEN <<>>
    ELSE (IF Head(s) = " " THEN <<"%", "2", "0">> ELSE <<Head(s)>>)
            \o AutoEscape(Tail(s))

\* first position of one of the characters ending a host ("/", "?", "#")
HostEnd(s) ==
    IF \E i \in 1..Len(s) : s[i] \in {"/", "?", "#"}
    THEN CHOOSE i \in 1..Len(s) :
            /\ s[i] \in {"/", "?", "#"}
            /\ \A j \in 1..(i - 1) : s[j] \notin {"/", "?", "#"}
    ELSE Len(s) + 1

\* url.parse(text): the text is trimmed; "proto://host" is split off when the
\* text has one; the hash is cut at the first "#", the query at the first "?"
UrlParse(text) ==
    With(Trim(text), LAMBDA t0 :
    With(SlashesAt(t0), LAMBDA sl :
    With(sl > 1 /\ t0[sl - 1] = ":" /\ IndexOf(t0, ":") = sl - 1, LAMBDA slashed :
    With(IF slashed
         THEN With(SubSeq(t0, sl + 2, Len(t0)), LAMBDA afterSl :
                   SubSeq(t0, 1, sl + 1)
                       \o SubSeq(afterSl, 1, HostEnd(afterSl) - 1))
         ELSE <<>>, LAMBDA origin :
    With(AutoEscape(SubSeq(t0, Len(origin) + 1, Len(t0))), LAMBDA rest0 :
    With(IndexOf(rest0, "#"), LAMBDA h :
    With(IF h = 0 THEN rest0 ELSE SubSeq(rest0, 1, h - 1), LAMBDA rest1 :
    With(IndexOf(rest1, "?"), LAMBDA qm :
    With(IF qm = 0 THEN rest1 ELSE SubSeq(rest1, 1, qm - 1), LAMBDA rest2 :
    With(IF qm = 0 THEN None ELSE Some(SubSeq(rest1, qm, Len(rest1))), LAMBDA search :
    With(IF rest2 # <<>> THEN Some(rest2)
         ELSE IF slashed THEN Some(<<"/">>) ELSE None, LAMBDA pathname :
        [ origin   |-> origin,
          pathname |-> pathname,
          search   |-> search,
          query    |-> IF qm = 0 THEN None
                       ELSE Some(SubSeq(rest1, qm + 1, Len(rest1))),
          path     |-> IF pathname.some \/ search.some
                       THEN Some(pathname.v \o search.v) ELSE None,
          hash     |-> IF h = 0 THEN None
                       ELSE Some(SubSeq(rest0, h, Len(rest0))) ])))))))))))

\* Url.prototype.format: origin, pathname, search and hash put together
UrlFormat(u) == u.origin \o u.pathname.v \o u.search.v \o u.hash.v

\* querystring.unescape as used by querystring.parse: "+" is a space and
\* %20 is a space (the only escape the model's texts can hold)
RECURSIVE QsUnescape(_)
QsUnescape(s) ==
    IF s = <<>> THEN <<>>
    ELSE IF Head(s) = "+" THEN <<" ">> \o QsUnescape(Tail(s))
    ELSE IF Len(s) >= 3 /\ s[1] = "%" /\ s[2] = "2" /\ s[3] = "0"
         THEN <<" ">> \o QsUnescape(SubSeq(s, 4, Len(s)))
    ELSE <<Head(s)>> \o QsUnescape(Tail(s))

\* querystring.parse(query)[key] as the list of values found for the key:
\* <<>> is undefined, one value is a string, several values are an array
RECURSIVE QsValues(_, _)
QsValues(parts, key) ==
    IF parts = <<>> THEN <<>>
    ELSE LET part == Head(parts)
             eq   == IndexOf(part, "=")
             k    == QsUnescape(IF eq = 0 THEN part ELSE SubSeq(part, 1, eq - 1))
             v    == QsUnescape(IF eq = 0 THEN <<>>
                                ELSE SubSeq(part, eq + 1, Len(part)))
         IN  (IF part # <<>> /\ k = key THEN <<v>> ELSE <<>>)
                \o QsValues(Tail(parts), key)

QueryStringGet(query, key) ==
    IF ~query.some \/ query.v = <<>> THEN <<>>
    ELSE QsValues(SplitOn(query.v, "&"), key)

\* truthiness of a property read from the parsed query
Truthy(values) == Len(values) >= 2 \/ (Len(values) = 1 /\ values[1] # <<>>)

\* ToString of a property read from the parsed query (an array joins by ",")
ValuesToString(values) ==
    IF values = <<>> THEN <<"u", "n", "d", "e", "f", "i", "n", "e", "d">>
    ELSE JoinWith(values, <<",">>)

-----------------------------------------------------------------------------
(* Xrp.prototype.isValidAddress *)

\* the addresses ripple-address-codec accepts (base58 with a good checksum)
ValidAddresses == { <<"r", "A">>, <<"r", "B">>, <<"r", "7">> }

RippleIsValidAddress(a) == a.some /\ a.v \in ValidAddresses

DT == <<"d", "t">>
DtPrefix == <<"?", "d", "t", "=">>

\* mutants of the range test: the negative side forgotten, and the upper
\* limit taken exclusive
TagOutOfRangeNoNegative(parsedTag) == MagLess(UINT32_MAX, parsedTag.mag)

TagOutOfRangeExclusive(parsedTag) ==
    \/ ~MagLess(parsedTag.mag, UINT32_MAX)
    \/ (parsedTag.neg /\ ~IsZeroMag(parsedTag.mag))

\* parsedTag > 0xFFFFFFFF || parsedTag < 0
TagOutOfRange(parsedTag) ==
    \/ MagLess(UINT32_MAX, parsedTag.mag)
    \/ (parsedTag.neg /\ ~IsZeroMag(parsedTag.mag))

\* `${destinationAddress}?dt=${parsedTag}`
NormalizedAddress(destinationAddress, parsedTag) ==
    destinationAddress \o DtPrefix \o NumberToString(parsedTag)

\* the value returned, with the values the function parsed on its way
IsValidAddress(addr) ==
    With(UrlParse(addr), LAMBDA destinationDetails :
    With(QueryStringGet(destinationDetails.query, DT), LAMBDA dt :
    With(destinationDetails.pathname, LAMBDA destinationAddress :
    With(ParseInt(ValuesToString(dt)), LAMBDA parsedTag :
    With([ ret |-> FALSE, destinationAddress |-> destinationAddress,
           tagged |-> FALSE, parsedTag |-> NaN ], LAMBDA untagged :
    With([ ret |-> FALSE, destinationAddress |-> destinationAddress,
           tagged |-> TRUE, parsedTag |-> parsedTag ], LAMBDA tagged :
        IF ~RippleIsValidAddress(destinationAddress) THEN untagged
        ELSE IF destinationAddress.v = addr THEN [untagged EXCEPT !.ret = TRUE]
        ELSE IF ~Truthy(dt) THEN untagged
        ELSE IF ~IsSafeInteger(parsedTag) THEN tagged
        ELSE IF TagOutOfRange(parsedTag) THEN tagged
        ELSE [tagged EXCEPT !.ret =
                 NormalizedAddress(destinationAddress.v, parsedTag) = addr]))))))

\* ---- the arguments isValidAddress is called with ----

\* tags 0..MaxSmallTag are tried besides the boundary values
MaxSmallTag == 11

DigitText(mag) == [i \in 1..Len(mag) |-> DigitChar(mag[i])]

BoundaryMagnitudes ==
    { <<4, 2, 9, 4, 9, 6, 7, 2, 9, 4>>,                     \* 2^32 - 2
      UINT32_MAX,                                           \* 2^32 - 1
      <<4, 2, 9, 4, 9, 6, 7, 2, 9, 6>>,                     \* 2^32
      <<1, 0, 0, 0, 0, 0, 0, 0, 0, 0, 0>>,                  \* 10^10
      MAX_SAFE_INTEGER,                                     \* 2^53 - 1
      <<9, 0, 0, 7, 1, 9, 9, 2, 5, 4, 7, 4, 0, 9, 9, 2>> }  \* 2^53

TagMagnitudes == { NatDigits(n) : n \in 0..MaxSmallTag } \cup BoundaryMagnitudes

\* ways of writing a number (and of failing to) after "dt="
TagVariants(t) ==
    { t, <<"0">> \o t, <<"-">> \o t, <<"+">> \o t, <<" ">> \o t,
      t \o <<"x">>, t \o <<".", "5">>, t \o <<"e", "1">> }
    \cup (IF Len(t) <= 2 THEN { <<"0", "x">> \o t } ELSE {})

TagTexts ==
    UNION { TagVariants(DigitText(m)) : m \in TagMagnitudes }
        \cup { <<>>, <<"x">>, <<"-">> }

AddressSuffixes ==
    { <<>>, <<"?">>, <<"#">>, <<"?", "d", "t">>, <<"?", "x", "=", "1">> }
    \cup { DtPrefix \o t : t \in TagTexts }
    \cup UNION { LET t == DigitText(m) IN
                 { DtPrefix \o t \o <<"&", "d", "t", "=">> \o t,
                   DtPrefix \o t \o <<"&", "x", "=", "1">>,
                   <<"?", "x", "=", "1", "&", "d", "t", "=">> \o t,
                   DtPrefix \o t \o <<"#">>,
                   DtPrefix \o t \o <<"#", "a">>,
                   DtPrefix \o t \o <<" ">>,
                   <<"?">> \o DtPrefix \o t,
                   <<"&", "d", "t", "=">> \o t,
                   <<"?", "D", "T", "=">> \o t } : m \in TagMagnitudes }

AddressBases ==
    ValidAddresses \cup { <<"r", "Z">>, <<>>, <<" ", "r", "A">> }

AddressInputs == { b \o x : b \in AddressBases, x \in AddressSuffixes }

NoAddrResult ==
    [ret |-> FALSE, destinationAddress |-> None, tagged |-> FALSE, parsedTag |-> NaN]

AddrInit ==
    /\ address \in AddressInputs
    /\ addrPc = "call"
    /\ addrResult = NoAddrResult

AddrIdle ==
    /\ address = <<>>
    /\ addrPc = "idle"
    /\ addrResult = NoAddrResult

CallIsValidAddress ==
    /\ addrPc = "call"
    /\ addrResult' = IsValidAddress(address)
    /\ addrPc' = "returned"
    /\ UNCHANGED address
    /\ UNCHANGED <<recVars, issVars, chanVars, bootVars, sessVars, cacheVars, genVars, explVars, ledgVars, authVars>>

-----------------------------------------------------------------------------
(* bignumber.js values: decimals with one digit below the unit *)

\* the decimal text of an integer
IntText(n) ==
    IF n < 0 THEN <<"-">> \o DigitText(NatDigits(0 - n)) ELSE DigitText(NatDigits(n))

\* a BigNumber is units + tenths/10, with units the floor of the value
BigNumber(n) == [units |-> n, tenths |-> 0]

\* x.plus(y)
BnPlus(x, y) ==
    [ units  |-> x.units + y.units + ((x.tenths + y.tenths) \div 10),
      tenths |-> (x.tenths + y.tenths) % 10 ]

\* x.minus(y)
BnMinus(x, y) ==
    [ units  |-> x.units - y.units - (IF x.tenths < y.tenths THEN 1 ELSE 0),
      tenths |-> (x.tenths - y.tenths + 10) % 10 ]

\* x.times(k) for a natural number k
BnTimes(x, k) ==
    [ units  |-> x.units * k + ((x.tenths * k) \div 10),
      tenths |-> (x.tenths * k) % 10 ]

\* x.times(d) for a whole x and the decimal d = tenthsOfFactor/10
BnTimesDecimal(x, tenthsOfFactor) ==
    [ units  |-> (x.units * tenthsOfFactor) \div 10,
      tenths |-> (x.units * tenthsOfFactor) % 10 ]

\* the integer part of x (rounding towards zero)
BnTruncated(x) ==
    IF x.units >= 0 \/ x.tenths = 0 THEN x.units ELSE x.units + 1

\* the integer x.toFixed(0) prints: bignumber.js rounds to the nearest
\* integer, a tie away from zero (ROUNDING_MODE 4, which the code leaves as is)
BnRounded(x) ==
    IF x.units >= 0
    THEN (IF x.tenths >= 5 THEN x.units + 1 ELSE x.units)
    ELSE (IF x.tenths > 5 THEN x.units + 1 ELSE x.units)

\* mutant of toFixed(0): the digits below the unit are cut off
ToFixed0Truncating(x) == IntText(BnTruncated(x))

\* x.toFixed(0)
ToFixed0(x) == IntText(BnRounded(x))

-----------------------------------------------------------------------------
(* Xrp.prototype.recover: data *)

\* the private keys initiateRecovery can hand over as keys[0] and keys[1]
Keys == { "xprvA", "xprvB" }

\* rippleKeypairs.deriveAddress of the key's public key
DeriveAddress(key) == IF key = "xprvA" THEN "rSignerA" ELSE "rSignerB"

\* the accounts a signer entry of the ledger can name
SignerAccounts == { "rSignerA", "rSignerB", "rBitGo", "rOther" }

USER_KEY_SETTING_FLAG == 65536
MASTER_KEY_DEACTIVATION_FLAG == 1048576
REQUIRE_DESTINATION_TAG_FLAG == 131072
\* a flag of the ledger the code does not look at (lsfDefaultRipple)
OtherAccountFlags == { 0, 8388608 }

\* accountFlags & bit, for a mask of one bit
BitAnd(flags, bit) == IF (flags \div bit) % 2 = 1 THEN bit ELSE 0

\* self.getBaseFactor()
BaseFactor == 1000000

\* quorums 1..MaxQuorum are tried
MaxQuorum == 3
SignerWeights == { 1, 2 }

SignerEntry(account, weight) == [Account |-> account, SignerWeight |-> weight]

SignerEntriesInputs ==
    { <<SignerEntry(a1, w1), SignerEntry(a2, w2), SignerEntry(a3, w3)>> :
        a1 \in SignerAccounts, a2 \in SignerAccounts, a3 \in SignerAccounts,
        w1 \in SignerWeights, w2 \in SignerWeights, w3 \in SignerWeights }
    \cup { <<SignerEntry(a1, 1), SignerEntry(a2, 1)>> :
             a1 \in SignerAccounts, a2 \in SignerAccounts }
    \cup { <<SignerEntry("rSignerA", 1), SignerEntry("rSignerB", 1),
             SignerEntry("rBitGo", 1), SignerEntry(a4, 1)>> : a4 \in SignerAccounts }

SignerListInputs ==
    [ SignerQuorum : 1..MaxQuorum, SignerEntries : SignerEntriesInputs ]

ExpectedSignerList ==
    [ SignerQuorum |-> 2,
      SignerEntries |-> <<SignerEntry("rSignerA", 1), SignerEntry("rSignerB", 1),
                          SignerEntry("rBitGo", 1)>> ]

SignerListsInputs ==
    { <<sl>> : sl \in SignerListInputs }
        \cup { <<>>, <<ExpectedSignerList, ExpectedSignerList>> }

ExpectedFlags == MASTER_KEY_DEACTIVATION_FLAG + REQUIRE_DESTINATION_TAG_FLAG

FlagsInputs ==
    { u + m + d + o :
        u \in {0, USER_KEY_SETTING_FLAG}, m \in {0, MASTER_KEY_DEACTIVATION_FLAG},
        d \in {0, REQUIRE_DESTINATION_TAG_FLAG}, o \in OtherAccountFlags }

\* a list that differs from the expected one in its quorum only
QuorumThreeSignerList == [ExpectedSignerList EXCEPT !.SignerQuorum = 3]

\* the policies are tried with the expected flags and with one wrong flags
\* value, the flags with the expected list, a reordered one and a wrong one
PolicyInputs ==
    (SignerListsInputs \X { ExpectedFlags, ExpectedFlags + USER_KEY_SETTING_FLAG })
    \cup ({ <<ExpectedSignerList>>, <<QuorumThreeSignerList>> } \X FlagsInputs)

\* account_data of the account_info reply (Balance in drops)
AccountDataInputs ==
    { [ Sequence |-> 7, Balance |-> 1000000000,
        signer_lists |-> p[1], Flags |-> p[2] ] : p \in PolicyInputs }

\* the balances tried with the policies below: 1000 XRP, 45 XRP (the reserve
\* when the reserves are 20 and 5 XRP) and 40 XRP, in drops
BalanceInputs == { 1000000000, 45000000, 40000000 }

\* three different accounts, in every order
DistinctAccountTriples ==
    { t \in SignerAccounts \X SignerAccounts \X SignerAccounts :
        t[1] # t[2] /\ t[1] # t[3] /\ t[2] # t[3] }

\* a list of three different accounts, each of weight 1, with quorum 2
DistinctSignerLists ==
    { [ SignerQuorum |-> 2,
        SignerEntries |-> <<SignerEntry(t[1], 1), SignerEntry(t[2], 1),
                            SignerEntry(t[3], 1)>> ] :
        t \in DistinctAccountTriples }

\* account data with one such list, in every order of its entries, with
\* the flags of an initialized wallet and each balance
AccountDataVariants ==
    { [ Sequence |-> 7, Balance |-> b, signer_lists |-> <<sl>>,
        Flags |-> ExpectedFlags + o ] :
        b \in BalanceInputs, sl \in DistinctSignerLists, o \in OtherAccountFlags }

\* drops.open_ledger_fee of the fee reply
FeeInputs == { 10, 5000 }

\* a JSON number with up to seven decimals: xrp + frac / 10^7
Decimal7(xrp, frac) == [xrp |-> xrp, frac |-> frac]

DefaultValidatedLedger ==
    [ reserve_base_xrp |-> Decimal7(20, 0), reserve_inc_xrp |-> Decimal7(5, 0),
      seq |-> 1000 ]

\* info.validated_ledger of the server_info reply (reserves in XRP): 20 and
\* 5, the reserves 10 and 0.2, and values that are not a whole number of
\* drops, which the code takes as they come
ValidatedLedgerInputs ==
    [ reserve_base_xrp : { Decimal7(20, 0), Decimal7(10, 3) },
      reserve_inc_xrp  : { Decimal7(5, 0), Decimal7(0, 2000000), Decimal7(5, 1) },
      seq              : { 1000 } ]

\* the destinations tried with every policy
PlainDestinations ==
    { <<"r", "A">>, <<"r", "A", "?", "d", "t", "=", "5">> }

\* rA followed by a query
WithQuery(query) == <<"r", "A", "?">> \o query

\* destinations with a tag of 0, a negative tag, a tag that is no number,
\* an empty tag, a tag followed by other text, a query without dt, and dt
\* twice; a tag of 2^32, a base that is no address, and no base at all
RecoveryDestinations ==
    PlainDestinations
    \cup { WithQuery(<<"d", "t", "=", "4", "2", "9", "4", "9", "6", "7", "2", "9", "6">>),
           <<"x", "A">>,
           <<"?", "d", "t", "=", "5">>,
           WithQuery(<<"d", "t", "=", "0">>),
           WithQuery(<<"d", "t", "=", "-", "5">>),
           WithQuery(<<"d", "t", "=", "a", "b">>),
           WithQuery(<<"d", "t", "=">>),
           WithQuery(<<"d", "t", "=", "5", "x">>),
           WithQuery(<<"x", "=", "1">>),
           WithQuery(<<"d", "t", "=", "5", "&", "d", "t", "=", "6">>) }

\* the user key is xprvA; the backup key is the other key or the same one
RecoverParams ==
    [ rootAddress         : { "rRoot" },
      recoveryDestination : RecoveryDestinations,
      userKey             : { "xprvA" },
      backupKey           : Keys ]

RippledCalls == { "account_info", "fee", "server_info" }

\* Xrp.prototype.getRippledUrl
GetRippledUrl == "https://s1.ripple.com:51234"

\* the base url of the custodial server (bitgo.url)
BitGoUrl == "https://www.bitgo.com/api/v2"

\* mutant of the requests: the fee is asked of the custodial server
RecoverRequestsFeeFromServer(rippledUrl) ==
    { [url |-> rippledUrl, verb |-> "POST", method |-> "account_info"],
      [url |-> BitGoUrl, verb |-> "POST", method |-> "fee"],
      [url |-> rippledUrl, verb |-> "POST", method |-> "server_info"] }

\* the three requests the handler given to initiateRecovery().then creates:
\* self.bitgo.post(rippledUrl).send({ method })
RecoverRequests(rippledUrl) ==
    { [url |-> rippledUrl, verb |-> "POST", method |-> "account_info"],
      [url |-> rippledUrl, verb |-> "POST", method |-> "fee"],
      [url |-> rippledUrl, verb |-> "POST", method |-> "server_info"] }

\* the account data a call can be answered with: every policy for the plain
\* destinations while the reserves are the default ones, the variants always
AccountDataFor(params, fetched) ==
    IF /\ params.recoveryDestination \in PlainDestinations
       /\ ("server_info" \in fetched.replied
               => fetched.validated_ledger = DefaultValidatedLedger)
    THEN AccountDataInputs \cup AccountDataVariants
    ELSE AccountDataVariants

\* the reserves a call can be answered with: every one of them unless the
\* account data is not one of the variants
ValidatedLedgerFor(fetched) ==
    IF "account_info" \in fetched.replied
          /\ fetched.account_data \notin AccountDataVariants
    THEN { DefaultValidatedLedger }
    ELSE ValidatedLedgerInputs

NoReply == [replied |-> {}, account_data |-> <<>>, open_ledger_fee |-> 0,
            validated_ledger |-> <<>>]

NoTx == [built |-> FALSE]
NoOut == [resolved |-> FALSE]

-----------------------------------------------------------------------------
(* Xrp.prototype.recover: the handler given to .spread *)

NoFoundAddresses == [a \in SignerAccounts |-> 0]

\* mutant of the loop: the weight of an entry is not looked at
RECURSIVE ScanSignerEntriesAnyWeight(_, _)
ScanSignerEntriesAnyWeight(signerEntries, foundAddresses) ==
    IF signerEntries = <<>> THEN [error |-> "", found |-> foundAddresses]
    ELSE LET account == Head(signerEntries).Account
         IN  IF foundAddresses[account] >= 1
             THEN [error |-> "duplicate signer address", found |-> foundAddresses]
             ELSE ScanSignerEntriesAnyWeight(Tail(signerEntries),
                     [foundAddresses EXCEPT ![account] = @ + 1])

\* the for-loop over signerEntries: the error it throws ("" if none) and
\* foundAddresses when it ends
RECURSIVE ScanSignerEntries(_, _)
ScanSignerEntries(signerEntries, foundAddresses) ==
    IF signerEntries = <<>> THEN [error |-> "", found |-> foundAddresses]
    ELSE LET weight  == Head(signerEntries).SignerWeight
             account == Head(signerEntries).Account
         IN  IF weight # 1
             THEN [error |-> "invalid signer weight", found |-> foundAddresses]
             ELSE IF foundAddresses[account] >= 1
             THEN [error |-> "duplicate signer address", found |-> foundAddresses]
             ELSE ScanSignerEntries(Tail(signerEntries),
                     [foundAddresses EXCEPT ![account] = @ + 1])

\* mutant of the checks of the signer lists: the user and the backup address
\* are looked for in the first and the second entry
SignerListErrorByPosition(signerLists, userAddress, backupAddress) ==
    IF Len(signerLists) # 1 THEN "unexpected set of signer lists"
    ELSE LET signerList    == signerLists[1]
             signerEntries == signerList.SignerEntries
             scan          == ScanSignerEntries(signerEntries, NoFoundAddresses)
         IN  IF signerList.SignerQuorum # 2 THEN "invalid minimum signature count"
             ELSE IF Len(signerEntries) # 3 THEN "invalid signer list length"
             ELSE IF scan.error # "" THEN scan.error
             ELSE IF signerEntries[1].Account # userAddress
             THEN "unexpected incidence frequency of user signer address"
             ELSE IF signerEntries[2].Account # backupAddress
             THEN "unexpected incidence frequency of user signer address"
             ELSE ""

\* the checks of the signer lists, in the order of the code: the message of
\* the first error thrown, "" when all pass
SignerListError(signerLists, userAddress, backupAddress) ==
    IF Len(signerLists) # 1 THEN "unexpected set of signer lists"
    ELSE LET signerList    == signerLists[1]
             signerEntries == signerList.SignerEntries
             scan          == ScanSignerEntries(signerEntries, NoFoundAddresses)
         IN  IF signerList.SignerQuorum # 2 THEN "invalid minimum signature count"
             ELSE IF Len(signerEntries) # 3 THEN "invalid signer list length"
             ELSE IF scan.error # "" THEN scan.error
             ELSE IF scan.found[userAddress] # 1
             THEN "unexpected incidence frequency of user signer address"
             ELSE IF scan.found[backupAddress] # 1
             THEN "unexpected incidence frequency of user signer address"
             ELSE ""

\* mutant of the flag checks: the master key check is left out
AccountFlagsErrorNoMasterCheck(accountFlags) ==
    IF BitAnd(accountFlags, USER_KEY_SETTING_FLAG) # 0
    THEN "a custom user key has been set"
    ELSE IF BitAnd(accountFlags, REQUIRE_DESTINATION_TAG_FLAG)
                # REQUIRE_DESTINATION_TAG_FLAG
    THEN "the destination flag requirement has not been activated"
    ELSE ""

\* the checks of the account flags
AccountFlagsError(accountFlags) ==
    IF BitAnd(accountFlags, USER_KEY_SETTING_FLAG) # 0
    THEN "a custom user key has been set"
    ELSE IF BitAnd(accountFlags, MASTER_KEY_DEACTIVATION_FLAG)
                # MASTER_KEY_DEACTIVATION_FLAG
    THEN "the master key has not been deactivated"
    ELSE IF BitAnd(accountFlags, REQUIRE_DESTINATION_TAG_FLAG)
                # REQUIRE_DESTINATION_TAG_FLAG
    THEN "the destination flag requirement has not been activated"
    ELSE ""

\* new BigNumber(x).times(self.getBaseFactor()) for a number x of XRP: drops
TimesBaseFactor(x) ==
    [ units  |-> x.xrp * BaseFactor + (x.frac \div 10),
      tenths |-> x.frac % 10 ]

\* mutant of the reserve: one increment instead of five
ReserveOneIncrement(baseReserve, reserveDelta) ==
    BnPlus(baseReserve, reserveDelta)

\* baseReserve.plus(reserveDelta.times(5))
Reserve(baseReserve, reserveDelta) ==
    BnPlus(baseReserve, BnTimes(reserveDelta, 5))

\* the Flags field of every transaction built: 2147483648 (tfFullyCanonicalSig)
TxFlagsText == <<"2", "1", "4", "7", "4", "8", "3", "6", "4", "8">>

\* the transaction object of the code, from the handler's locals
BuildTransaction(params, fetched, recoverableBalance) ==
    LET destinationDetails == UrlParse(params.recoveryDestination)
        dt                 == QueryStringGet(destinationDetails.query, DT)
        destinationAddress == destinationDetails.pathname
        parsedTag          == ParseInt(ValuesToString(dt))
        destinationTag     == IF IsInteger(parsedTag)
                              THEN [some |-> TRUE, v |-> parsedTag]
                              ELSE [some |-> FALSE, v |-> NaN]
    IN  [ TransactionType    |-> "Payment",
          Account            |-> params.rootAddress,
          Destination        |-> destinationAddress,
          DestinationTag     |-> destinationTag,
          Amount             |-> ToFixed0(recoverableBalance),
          Flags              |-> TxFlagsText,
          LastLedgerSequence |-> fetched.validated_ledger.seq + 100,
          Fee                |-> ToFixed0(BnTimes(BigNumber(fetched.open_ledger_fee), 3)),
          Sequence           |-> fetched.account_data.Sequence ]

\* the DestinationTag field is an unsigned integer of 32 bits
TagEncodable(tag) ==
    ~tag.some \/ (~tag.v.nan /\ (~tag.v.neg \/ IsZeroMag(tag.v.mag))
                     /\ ~MagLess(UINT32_MAX, tag.v.mag))

\* mutant of the encoding: every transaction is encoded as it was built
EncodingsAsBuilt(transaction) == { transaction }

\* the transactions the binary encoding of a transaction can stand for: the
\* transaction itself; for a negative tag, which the field cannot hold, the
\* tag without its sign (the other outcome is that encoding throws); none
\* when the Destination is no account id or the tag has more than 32 bits
EncodingsOf(transaction) ==
    IF ~RippleIsValidAddress(transaction.Destination) THEN {}
    ELSE IF TagEncodable(transaction.DestinationTag) THEN { transaction }
    ELSE IF MagLess(UINT32_MAX, transaction.DestinationTag.v.mag) THEN {}
    ELSE { [transaction EXCEPT !.DestinationTag.v.neg = FALSE] }

\* rippleLib.signWithPrivateKey(txJSON, key, { signAs }): one signer's
\* signature over the transaction
SignWithPrivateKey(txJSON, privateKey, signAs) ==
    [ txJSON |-> txJSON,
      Signers |-> << [Account |-> signAs, signedWith |-> privateKey] >> ]

\* the order of the account ids, by which combine sorts the signers
AccountOrder == <<"rBitGo", "rSignerB", "rOther", "rSignerA">>

AccountRank(account) == IndexOf(AccountOrder, account)

\* signer put into a sequence of signers sorted by account
RECURSIVE InsertSigner(_, _)
InsertSigner(signer, sorted) ==
    IF sorted = <<>> THEN <<signer>>
    ELSE IF AccountRank(signer.Account) <= AccountRank(Head(sorted).Account)
    THEN <<signer>> \o sorted
    ELSE <<Head(sorted)>> \o InsertSigner(signer, Tail(sorted))

RECURSIVE SortSigners(_)
SortSigners(signers) ==
    IF signers = <<>> THEN <<>>
    ELSE InsertSigner(Head(signers), SortSigners(Tail(signers)))

\* mutant of combine: the signers of the first transaction only
CombineFirstOnly(signedTransactions) ==
    [ txJSON  |-> signedTransactions[1].txJSON,
      Signers |-> signedTransactions[1].Signers ]

\* rippleLib.combine(signedTransactions): the signers of all, sorted by
\* account, on the one transaction they sign
Combine(signedTransactions) ==
    [ txJSON  |-> signedTransactions[1].txJSON,
      Signers |-> SortSigners(Flatten([i \in 1..Len(signedTransactions) |->
                                          signedTransactions[i].Signers])) ]

\* rippleHashes.computeBinaryTransactionHash
TransactionHash(txHex) == [hashOf |-> txHex]

\* mutant of explainTransaction: the tag is shown when it is greater than 0
ExplainTransactionTagAboveZero(txHex) ==
    LET transaction == txHex.txJSON
        tag         == transaction.DestinationTag
        tagged      == tag.some /\ ~tag.v.nan
                           /\ ~tag.v.neg /\ ~IsZeroMag(tag.v.mag)
    IN  [ id            |-> TransactionHash(txHex),
          outputs       |-> << [ address |->
                                   (IF transaction.Destination.some
                                    THEN transaction.Destination.v
                                    ELSE <<"n", "u", "l", "l">>)
                                   \o (IF tagged
                                       THEN <<"?", "d", "t", "=">>
                                               \o NumberToString(tag.v)
                                       ELSE <<>>),
                                 amount |-> transaction.Amount ] >>,
          changeOutputs |-> <<>>,
          outputAmount  |-> transaction.Amount,
          changeAmount  |-> 0,
          fee           |-> [miner |-> transaction.Fee] ]

\* Xrp.prototype.explainTransaction for the encoding of a signed transaction
ExplainTransaction(txHex) ==
    LET transaction == txHex.txJSON
        tag         == transaction.DestinationTag
        tagged      == tag.some /\ ~tag.v.nan
                           /\ (~tag.v.neg \/ IsZeroMag(tag.v.mag))
    IN  [ id            |-> TransactionHash(txHex),
          outputs       |-> << [ address |->
                                   (IF transaction.Destination.some
                                    THEN transaction.Destination.v
                                    ELSE <<"n", "u", "l", "l">>)
                                   \o (IF tagged
                                       THEN <<"?", "d", "t", "=">>
                                               \o NumberToString(tag.v)
                                       ELSE <<>>),
                                 amount |-> transaction.Amount ] >>,
          changeOutputs |-> <<>>,
          outputAmount  |-> transaction.Amount,
          changeAmount  |-> 0,
          fee           |-> [miner |-> transaction.Fee] ]

-----------------------------------------------------------------------------
(* Xrp.prototype.recover: the steps of a call *)

NoLocals == [reserve |-> BigNumber(0), recoverableBalance |-> BigNumber(0)]

RecInit ==
    /\ recPc = "FETCH"
    /\ recIn \in RecoverParams
    /\ recCalls = RecoverRequests(GetRippledUrl)
    /\ ledger = NoReply
    /\ recLocals = NoLocals
    /\ recTx = NoTx
    /\ recSigs = <<>>
    /\ recOut = NoOut
    /\ recErr = ""
    /\ recTrace = <<>>

RecIdle ==
    /\ recPc = "idle"
    /\ recCalls = {}
    /\ recIn = [rootAddress |-> "", recoveryDestination |-> <<>>,
                userKey |-> "", backupKey |-> ""]
    /\ ledger = NoReply
    /\ recLocals = NoLocals
    /\ recTx = NoTx
    /\ recSigs = <<>>
    /\ recOut = NoOut
    /\ recErr = ""
    /\ recTrace = <<>>

\* mutant of the join: the handler starts with the reply of account_info
AfterReplyOfAccountInfo(replied) ==
    IF "account_info" \in replied THEN "VALIDATE_POLICY" ELSE "FETCH"

\* the step taken when a reply arrives: the handler starts once all three
\* promises of the array have resolved
AfterReply(replied) ==
    IF replied = RippledCalls THEN "VALIDATE_POLICY" ELSE "FETCH"

\* the ledger node answers account_info
ReplyAccountInfo ==
    /\ recPc = "FETCH"
    /\ "account_info" \notin ledger.replied
    /\ \E d \in AccountDataFor(recIn, ledger) :
          ledger' = [ledger EXCEPT !.replied = @ \cup {"account_info"},
                                   !.account_data = d]
    /\ recPc' = AfterReply(ledger'.replied)
    /\ recTrace' = IF recPc' = "FETCH" THEN recTrace ELSE Append(recTrace, "FETCH")
    /\ UNCHANGED <<recIn, recCalls, recLocals, recTx, recSigs, recOut, recErr>>
    /\ UNCHANGED <<addrVars, issVars, chanVars, bootVars, sessVars, cacheVars, genVars, explVars, ledgVars, authVars>>

\* the ledger node answers fee
ReplyFee ==
    /\ recPc = "FETCH"
    /\ "fee" \notin ledger.replied
    /\ \E f \in FeeInputs :
          ledger' = [ledger EXCEPT !.replied = @ \cup {"fee"},
                                   !.open_ledger_fee = f]
    /\ recPc' = AfterReply(ledger'.replied)
    /\ recTrace' = IF recPc' = "FETCH" THEN recTrace ELSE Append(recTrace, "FETCH")
    /\ UNCHANGED <<recIn, recCalls, recLocals, recTx, recSigs, recOut, recErr>>
    /\ UNCHANGED <<addrVars, issVars, chanVars, bootVars, sessVars, cacheVars, genVars, explVars, ledgVars, authVars>>

\* the ledger node answers server_info
ReplyServerInfo ==
    /\ recPc = "FETCH"
    /\ "server_info" \notin ledger.replied
    /\ \E v \in ValidatedLedgerFor(ledger) :
          ledger' = [ledger EXCEPT !.replied = @ \cup {"server_info"},
                                   !.validated_ledger = v]
    /\ recPc' = AfterReply(ledger'.replied)
    /\ recTrace' = IF recPc' = "FETCH" THEN recTrace ELSE Append(recTrace, "FETCH")
    /\ UNCHANGED <<recIn, recCalls, recLocals, recTx, recSigs, recOut, recErr>>
    /\ UNCHANGED <<addrVars, issVars, chanVars, bootVars, sessVars, cacheVars, genVars, explVars, ledgVars, authVars>>

\* one of the calls still pending fails: the promise of recover is rejected
FetchFails ==
    /\ recPc = "FETCH"
    /\ ledger.replied # RippledCalls
    /\ recPc' = "REJECTED"
    /\ recErr' = "request failed"
    /\ recTrace' = Append(recTrace, "FETCH")
    /\ UNCHANGED <<recIn, recCalls, ledger, recLocals, recTx, recSigs, recOut>>
    /\ UNCHANGED <<addrVars, issVars, chanVars, bootVars, sessVars, cacheVars, genVars, explVars, ledgVars, authVars>>

\* mutant of the validation step: the error is recorded but the handler
\* goes on to the next stage
ValidatePolicyGoesOn ==
    /\ recPc = "VALIDATE_POLICY"
    /\ LET userAddress   == DeriveAddress(recIn.userKey)
           backupAddress == DeriveAddress(recIn.backupKey)
           listError     == SignerListError(ledger.account_data.signer_lists,
                                            userAddress, backupAddress)
       IN  recErr' = IF listError # "" THEN listError
                     ELSE AccountFlagsError(ledger.account_data.Flags)
    /\ recPc' = "COMPUTE_BALANCE"
    /\ recTrace' = Append(recTrace, "VALIDATE_POLICY")
    /\ UNCHANGED <<recIn, recCalls, ledger, recLocals, recTx, recSigs, recOut>>
    /\ UNCHANGED <<addrVars, issVars, chanVars, bootVars, sessVars, cacheVars, genVars, explVars, ledgVars, authVars>>

\* lines 306-358: every check of the signer list and of the flags; the first
\* one that fails throws, which rejects the promise
ValidatePolicy ==
    /\ recPc = "VALIDATE_POLICY"
    /\ LET userAddress   == DeriveAddress(recIn.userKey)
           backupAddress == DeriveAddress(recIn.backupKey)
           listError     == SignerListError(ledger.account_data.signer_lists,
                                            userAddress, backupAddress)
           error         == IF listError # "" THEN listError
                            ELSE AccountFlagsError(ledger.account_data.Flags)
       IN  /\ recErr' = error
           /\ recPc' = IF error # "" THEN "REJECTED" ELSE "COMPUTE_BALANCE"
    /\ recTrace' = Append(recTrace, "VALIDATE_POLICY")
    /\ UNCHANGED <<recIn, recCalls, ledger, recLocals, recTx, recSigs, recOut>>
    /\ UNCHANGED <<addrVars, issVars, chanVars, bootVars, sessVars, cacheVars, genVars, explVars, ledgVars, authVars>>

\* lines 360-362
ComputeBalance ==
    /\ recPc = "COMPUTE_BALANCE"
    /\ recLocals' =
          [ reserve |->
              Reserve(TimesBaseFactor(ledger.validated_ledger.reserve_base_xrp),
                      TimesBaseFactor(ledger.validated_ledger.reserve_inc_xrp)),
            recoverableBalance |->
              BnMinus(BigNumber(ledger.account_data.Balance),
                  Reserve(TimesBaseFactor(ledger.validated_ledger.reserve_base_xrp),
                          TimesBaseFactor(ledger.validated_ledger.reserve_inc_xrp))) ]
    /\ recPc' = "BUILD_TX"
    /\ recTrace' = Append(recTrace, "COMPUTE_BALANCE")
    /\ UNCHANGED <<recIn, recCalls, ledger, recTx, recSigs, recOut, recErr>>
    /\ UNCHANGED <<addrVars, issVars, chanVars, bootVars, sessVars, cacheVars, genVars, explVars, ledgVars, authVars>>

\* lines 364-385
BuildTx ==
    /\ recPc = "BUILD_TX"
    /\ recTx' = [ built |-> TRUE,
                  transaction |-> BuildTransaction(recIn, ledger,
                                      recLocals.recoverableBalance) ]
    /\ recPc' = "SIGN"
    /\ recTrace' = Append(recTrace, "BUILD_TX")
    /\ UNCHANGED <<recIn, recCalls, ledger, recLocals, recSigs, recOut, recErr>>
    /\ UNCHANGED <<addrVars, issVars, chanVars, bootVars, sessVars, cacheVars, genVars, explVars, ledgVars, authVars>>

\* mutant of the signing step: the backup signature is made with the user
\* key and the user address as well
SignWithUserKeyTwice ==
    /\ recPc = "SIGN"
    /\ \E encoded \in EncodingsOf(recTx.transaction) :
          recSigs' = << SignWithPrivateKey(encoded, recIn.userKey,
                                           DeriveAddress(recIn.userKey)),
                        SignWithPrivateKey(encoded, recIn.userKey,
                                           DeriveAddress(recIn.userKey)) >>
    /\ recPc' = "COMBINE"
    /\ recTrace' = Append(recTrace, "SIGN")
    /\ UNCHANGED <<recIn, recCalls, ledger, recLocals, recTx, recOut, recErr>>
    /\ UNCHANGED <<addrVars, issVars, chanVars, bootVars, sessVars, cacheVars, genVars, explVars, ledgVars, authVars>>

\* lines 387-392: userSignature, then backupSignature, both over the
\* encoding of txJSON
Sign ==
    /\ recPc = "SIGN"
    /\ \E encoded \in EncodingsOf(recTx.transaction) :
          recSigs' = << SignWithPrivateKey(encoded, recIn.userKey,
                                           DeriveAddress(recIn.userKey)),
                        SignWithPrivateKey(encoded, recIn.backupKey,
                                           DeriveAddress(recIn.backupKey)) >>
    /\ recPc' = "COMBINE"
    /\ recTrace' = Append(recTrace, "SIGN")
    /\ UNCHANGED <<recIn, recCalls, ledger, recLocals, recTx, recOut, recErr>>
    /\ UNCHANGED <<addrVars, issVars, chanVars, bootVars, sessVars, cacheVars, genVars, explVars, ledgVars, authVars>>

\* line 391: signWithPrivateKey throws on a transaction it cannot encode,
\* which rejects the promise; the locals of the handler are gone
SignThrows ==
    /\ recPc = "SIGN"
    /\ \/ ~TagEncodable(recTx.transaction.DestinationTag)
       \/ ~RippleIsValidAddress(recTx.transaction.Destination)
    /\ recPc' = "REJECTED"
    /\ recErr' = "transaction cannot be encoded"
    /\ recTx' = NoTx
    /\ recTrace' = Append(recTrace, "SIGN")
    /\ UNCHANGED <<recIn, recCalls, ledger, recLocals, recSigs, recOut>>
    /\ UNCHANGED <<addrVars, issVars, chanVars, bootVars, sessVars, cacheVars, genVars, explVars, ledgVars, authVars>>

\* lines 393-397: combine, explain, and resolve with the explanation
CombineAndExplain ==
    /\ recPc = "COMBINE"
    /\ LET signedTransaction == Combine(recSigs)
       IN  recOut' = [ resolved    |-> TRUE,
                       explanation |-> ExplainTransaction(signedTransaction),
                       txHex       |-> signedTransaction ]
    /\ recPc' = "DONE"
    /\ recTrace' = Append(recTrace, "COMBINE")
    /\ UNCHANGED <<recIn, recCalls, ledger, recLocals, recTx, recSigs, recErr>>
    /\ UNCHANGED <<addrVars, issVars, chanVars, bootVars, sessVars, cacheVars, genVars, explVars, ledgVars, authVars>>

RecNext ==
    \/ ReplyAccountInfo
    \/ ReplyFee
    \/ ReplyServerInfo
    \/ FetchFails
    \/ ValidatePolicy
    \/ ComputeBalance
    \/ BuildTx
    \/ Sign
    \/ SignThrows
    \/ CombineAndExplain

-----------------------------------------------------------------------------
(* Xrp.prototype.supplementGenerateWallet *)

\* the pubs the three keychains can carry
KeychainPubs == { "xpubA", "xpubB", "xpubBitGo" }

\* rippleKeypairs.deriveAddress of the key of prova.HDNode.fromBase58(pub)
AddressOfPub(pub) ==
    CASE pub = "xpubA" -> "rSignerA"
      [] pub = "xpubB" -> "rSignerB"
      [] OTHER         -> "rBitGo"

Keychains ==
    [ userKeychain : KeychainPubs, backupKeychain : KeychainPubs,
      bitgoKeychain : KeychainPubs ]

\* walletParams.rootPrivateKey: left out, a string of some length whose
\* characters are all hexadecimal digits or not, or a value that is not a
\* string (a Buffer of 32 bytes); "prvA" is the private key of the key of
\* the keychain with pub "xpubA"
NoRootPrivateKey == [type |-> "undefined", length |-> 0, hexDigits |-> TRUE, hex |-> ""]
RootPrivateKeys ==
    { NoRootPrivateKey,
      [type |-> "string", length |-> 64, hexDigits |-> TRUE,  hex |-> "rootKeyGiven"],
      [type |-> "string", length |-> 64, hexDigits |-> TRUE,  hex |-> "prvA"],
      [type |-> "string", length |-> 64, hexDigits |-> FALSE, hex |-> "rootKeyNotHex"],
      [type |-> "string", length |-> 0,  hexDigits |-> TRUE,  hex |-> ""],
      [type |-> "string", length |-> 63, hexDigits |-> TRUE,  hex |-> "rootKeyShort"],
      [type |-> "string", length |-> 66, hexDigits |-> TRUE,  hex |-> "rootKeyLong"],
      [type |-> "object", length |-> 32, hexDigits |-> FALSE, hex |-> "rootKeyBuffer"] }

\* the keys prova.ECPair.makeRandom() can draw
RandomKeys == { "rootKeyRandom1", "rootKeyRandom2" }

\* keyPair.getPublicKeyBuffer().toString('hex') of the key pair of a private key
PublicKeyOf(privateKey) == "pub:" \o privateKey

\* rippleKeypairs.deriveAddress(publicKey): a function of the public key
\* alone, so the key of a keychain has the keychain's address wherever it
\* comes from
RootAddressOf(publicKey) ==
    CASE publicKey = "pub:prvA"     -> AddressOfPub("xpubA")
      [] publicKey = "pub:prvB"     -> AddressOfPub("xpubB")
      [] publicKey = "pub:prvBitGo" -> AddressOfPub("xpubBitGo")
      [] OTHER                      -> "r:" \o publicKey

\* if (walletParams.rootPrivateKey): undefined and '' are falsy
RootPrivateKeyGiven(rootPrivateKey) ==
    /\ rootPrivateKey.type # "undefined"
    /\ ~(rootPrivateKey.type = "string" /\ rootPrivateKey.length = 0)

\* typeof rootPrivateKey !== 'string' || rootPrivateKey.length !== 64
RootPrivateKeyRejected(rootPrivateKey) ==
    rootPrivateKey.type # "string" \/ rootPrivateKey.length # 64

\* prova.ECPair.fromPrivateKeyBuffer(Buffer.from(rootPrivateKey, 'hex')) of
\* a string of 64 characters: neither function is part of the sources. A
\* string of 64 hexadecimal digits is a buffer of 32 bytes and gives the key
\* pair; of any other string the outcome is open, a throw or a key pair of
\* the bytes decoded
KeyPairOutcomes(rootPrivateKey) ==
    IF rootPrivateKey.hexDigits THEN { "keyPair" } ELSE { "keyPair", "throws" }

\* Xrp.prototype.getFeeInfo: one GET of the fee information of the server
GetFeeInfo == [method |-> "GET", url |-> BitGoUrl \o "/xrp/public/feeinfo"]

\* the reply of getFeeInfo
NoFeeInfo == [ xrpOpenLedgerFee |-> 0, height |-> 0 ]
FeeInfoInputs == [ xrpOpenLedgerFee : { 10, 11 }, height : { 1000 } ]

\* mutant of the fee: 1.5 times the open ledger fee with its fraction cut off
BootstrapFeeTruncating(feeInfo) ==
    ToFixed0Truncating(BnTimesDecimal(BigNumber(feeInfo.xrpOpenLedgerFee), 15))

\* new BigNumber(feeInfo.xrpOpenLedgerFee).times(1.5).toFixed(0)
BootstrapFee(feeInfo) ==
    ToFixed0(BnTimesDecimal(BigNumber(feeInfo.xrpOpenLedgerFee), 15))

\* mutant of the signer list: the user's address stands in the custodian's entry
MultisigAssignmentTxUserTwice(rootAddress, userAddress, backupAddress, bitgoAddress, fee) ==
    [ TransactionType |-> "SignerListSet",
      Account         |-> rootAddress,
      SignerQuorum    |-> 2,
      SignerEntries   |-> << SignerEntry(userAddress, 1),
                             SignerEntry(backupAddress, 1),
                             SignerEntry(userAddress, 1) >>,
      Flags           |-> TxFlagsText,
      Fee             |-> fee,
      Sequence        |-> 1 ]

\* multisigAssignmentTx
MultisigAssignmentTx(rootAddress, userAddress, backupAddress, bitgoAddress, fee) ==
    [ TransactionType |-> "SignerListSet",
      Account         |-> rootAddress,
      SignerQuorum    |-> 2,
      SignerEntries   |-> << SignerEntry(userAddress, 1),
                             SignerEntry(backupAddress, 1),
                             SignerEntry(bitgoAddress, 1) >>,
      Flags           |-> TxFlagsText,
      Fee             |-> fee,
      Sequence        |-> 1 ]

\* destinationTagTx
DestinationTagTx(rootAddress, fee) ==
    [ TransactionType |-> "AccountSet",
      Account         |-> rootAddress,
      SetFlag         |-> 1,
      Flags           |-> TxFlagsText,
      Fee             |-> fee,
      Sequence        |-> 2 ]

\* mutant of masterDeactivationTx: it takes the sequence number of the
\* destination tag transaction
MasterDeactivationTxSecond(rootAddress, fee) ==
    [ TransactionType |-> "AccountSet",
      Account         |-> rootAddress,
      SetFlag         |-> 4,
      Flags           |-> TxFlagsText,
      Fee             |-> fee,
      Sequence        |-> 2 ]

\* masterDeactivationTx
MasterDeactivationTx(rootAddress, fee) ==
    [ TransactionType |-> "AccountSet",
      Account         |-> rootAddress,
      SetFlag         |-> 4,
      Flags           |-> TxFlagsText,
      Fee             |-> fee,
      Sequence        |-> 3 ]

\* rippleLib.signWithPrivateKey(txJSON, privateKey) without options: the
\* transaction signed by the one key
SignWithPrivateKeyAlone(txJSON, privateKey) ==
    [ txJSON        |-> txJSON,
      SigningPubKey |-> PublicKeyOf(privateKey),
      signedWith    |-> privateKey ]

NoBootLocals ==
    [ userAddress |-> "", backupAddress |-> "", bitgoAddress |-> "",
      privateKey |-> "", publicKey |-> "", rootAddress |-> "",
      feeInfo |-> NoFeeInfo ]

NoWalletParams == [supplemented |-> FALSE]

BootInputs ==
    [ keychains : Keychains, rootPrivateKey : RootPrivateKeys, random : RandomKeys ]

BootInit ==
    /\ bootPc = "CALL"
    /\ bootIn \in BootInputs
    /\ bootLocals = NoBootLocals
    /\ bootOut = NoWalletParams
    /\ bootErr = ""
    /\ bootCalls = << >>

BootIdle ==
    /\ bootPc = "idle"
    /\ bootIn = [ keychains |-> [userKeychain |-> "", backupKeychain |-> "",
                                 bitgoKeychain |-> ""],
                  rootPrivateKey |-> NoRootPrivateKey, random |-> "" ]
    /\ bootLocals = NoBootLocals
    /\ bootOut = NoWalletParams
    /\ bootErr = ""
    /\ bootCalls = << >>

\* lines 117-148, up to and with the call of getFeeInfo: the addresses of the
\* three keychains and the root key pair; a rootPrivateKey that is given but
\* is not a string of 64 characters makes the call throw, and so may a
\* string of 64 characters that the key pair cannot be made of
BootDeriveKeys ==
    /\ bootPc = "CALL"
    /\ IF RootPrivateKeyGiven(bootIn.rootPrivateKey)
             /\ RootPrivateKeyRejected(bootIn.rootPrivateKey)
       THEN /\ bootPc' = "THROWN"
            /\ bootErr' = "rootPrivateKey needs to be a hexadecimal private key string"
            /\ UNCHANGED <<bootLocals, bootCalls>>
       ELSE \E outcome \in KeyPairOutcomes(bootIn.rootPrivateKey) :
              IF RootPrivateKeyGiven(bootIn.rootPrivateKey) /\ outcome = "throws"
              THEN /\ bootPc' = "THROWN"
                   /\ bootErr' = "fromPrivateKeyBuffer throws"
                   /\ UNCHANGED <<bootLocals, bootCalls>>
              ELSE /\ bootPc' = "FEE_INFO"
                   /\ bootLocals' =
                         With(IF RootPrivateKeyGiven(bootIn.rootPrivateKey)
                              THEN bootIn.rootPrivateKey.hex ELSE bootIn.random,
                              LAMBDA privateKey :
                                [ userAddress   |-> AddressOfPub(bootIn.keychains.userKeychain),
                                  backupAddress |-> AddressOfPub(bootIn.keychains.backupKeychain),
                                  bitgoAddress  |-> AddressOfPub(bootIn.keychains.bitgoKeychain),
                                  privateKey    |-> privateKey,
                                  publicKey     |-> PublicKeyOf(privateKey),
                                  rootAddress   |-> RootAddressOf(PublicKeyOf(privateKey)),
                                  feeInfo       |-> NoFeeInfo ])
                   /\ bootCalls' = Append(bootCalls, GetFeeInfo)
                   /\ UNCHANGED bootErr
    /\ UNCHANGED <<bootIn, bootOut>>
    /\ UNCHANGED <<addrVars, recVars, issVars, chanVars, sessVars, cacheVars, genVars, explVars, ledgVars, authVars>>

\* the handler given to getFeeInfo().then: the three transactions are built
\* and signed, and walletParams is extended and returned
BootBuildInitializationTxs ==
    /\ bootPc = "FEE_INFO"
    /\ \E feeInfo \in FeeInfoInputs :
          /\ bootLocals' = [bootLocals EXCEPT !.feeInfo = feeInfo]
          /\ bootOut' =
            [ supplemented      |-> TRUE,
              rootPrivateKey    |-> bootIn.rootPrivateKey,
              rootPub           |-> bootLocals.publicKey,
              initializationTxs |->
                [ setMultisig |->
                    SignWithPrivateKeyAlone(
                        MultisigAssignmentTx(bootLocals.rootAddress,
                            bootLocals.userAddress, bootLocals.backupAddress,
                            bootLocals.bitgoAddress, BootstrapFee(feeInfo)),
                        bootLocals.privateKey),
                  disableMasterKey |->
                    SignWithPrivateKeyAlone(
                        MasterDeactivationTx(bootLocals.rootAddress,
                                             BootstrapFee(feeInfo)),
                        bootLocals.privateKey),
                  forceDestinationTag |->
                    SignWithPrivateKeyAlone(
                        DestinationTagTx(bootLocals.rootAddress,
                                         BootstrapFee(feeInfo)),
                        bootLocals.privateKey) ] ]
    /\ bootPc' = "DONE"
    /\ UNCHANGED <<bootIn, bootErr, bootCalls>>
    /\ UNCHANGED <<addrVars, recVars, issVars, chanVars, sessVars, cacheVars, genVars, explVars, ledgVars, authVars>>

\* getFeeInfo fails: the promise of supplementGenerateWallet is rejected
BootFeeInfoFails ==
    /\ bootPc = "FEE_INFO"
    /\ bootPc' = "REJECTED"
    /\ bootErr' = "request failed"
    /\ UNCHANGED <<bootIn, bootLocals, bootOut, bootCalls>>
    /\ UNCHANGED <<addrVars, recVars, issVars, chanVars, sessVars, cacheVars, genVars, explVars, ledgVars, authVars>>

BootNext ==
    \/ BootDeriveKeys
    \/ BootBuildInitializationTxs
    \/ BootFeeInfoFails

-----------------------------------------------------------------------------
(* BitGo.prototype.decrypt and BitGo.prototype.handleTokenIssuance *)

\* sjcl ciphertexts: a plaintext sealed under a password, or bytes that are no
\* ciphertext of anything
Sealed(password, plaintext) == [kind |-> "sealed", password |-> password,
                                plaintext |-> plaintext]
CorruptCiphertext == [kind |-> "corrupt", password |-> "", plaintext |-> ""]

\* BitGo.prototype.decrypt({ input, password }): validateParams throws when
\* one of the two is missing, sjcl.decrypt throws on a wrong password or a
\* corrupt ciphertext; otherwise the plaintext is returned
Decrypt(input, password) ==
    IF ~input.some \/ ~password.some
    THEN [threw |-> TRUE, plaintext |-> ""]
    ELSE IF input.v.kind # "sealed" \/ input.v.password # password.v
    THEN [threw |-> TRUE, plaintext |-> ""]
    ELSE [threw |-> FALSE, plaintext |-> input.v.plaintext]

\* extended private keys of the client, and text that is no key
ClientXprvs == { "xprvClient", "xprvStale" }
ServerXpub == "xpubServer"
DerivationPaths == { "m/1", "m/2" }

\* the point serverDerivedNode.keyPair.__Q.multiply(clientDerivedNode.keyPair.d)
\* for nodes derived along the paths given
EcdhPoint(serverXpub, serverPath, clientXprv, clientPath) ==
    [ server |-> <<serverXpub, serverPath>>, client |-> <<clientXprv, clientPath>> ]

\* new Buffer(Util.bnToByteArrayUnsigned(point.affineX)).toString('hex'): the
\* x-coordinate of the point alone
AffineXHex(point) ==
    point.server[1] \o ":" \o point.server[2] \o ":"
          \o point.client[1] \o ":" \o point.client[2]

\* mutant of the encoding: the x-coordinate without the byte before it
PointEncodedHexBare(point) == AffineXHex(point)

\* secretPoint.getEncoded().toString('hex'): the encoding of the point, a
\* byte for its form followed by its coordinates
PointEncodedHex(point) == "04:" \o AffineXHex(point)

\* BitGo.prototype.getECDHSecret({ eckey, otherPubKeyHex }): eckey is the
\* private key of a node <<xprv, path>>, otherPubKeyHex the public key of a
\* node <<xpub, path>>
GetECDHSecret(params) ==
    IF ~params.otherPubKeyHex.some
    THEN [threw |-> TRUE, secret |-> ""]
    ELSE IF ~params.eckey.some
    THEN [threw |-> TRUE, secret |-> ""]
    ELSE [threw |-> FALSE,
          secret |-> AffineXHex(EcdhPoint(params.otherPubKeyHex.v[1],
                                          params.otherPubKeyHex.v[2],
                                          params.eckey.v[1], params.eckey.v[2]))]

ECDH_XPRV_DECRYPTION_FAILURE == "ecdh_xprv_decryption_failure"

\* mutant of the tag of line 703: the tag of the other decryption is used
TokenFailureCodeConfused == "ecdh_xprv_decryption_failure"

TOKEN_DECRYPTION_FAILURE == "token_decryption_failure"

NoIssue == [token |-> "", ecdhXprv |-> None]
Thrown(code, msg) == [threw |-> TRUE, errorCode |-> code, message |-> msg,
                      response |-> NoIssue]
Returned(r) == [threw |-> FALSE, errorCode |-> "", message |-> "", response |-> r]

\* handleTokenIssuance(responseBody, password) on a BitGo object whose
\* _ecdhXprv is cachedXprv
HandleTokenIssuance(cachedXprv, responseBody, password) ==
    IF ~responseBody.derivationPath.some
    THEN Thrown("", "Missing parameter: derivationPath")
    ELSE IF ~cachedXprv.some
              /\ (~password.some \/ ~responseBody.encryptedECDHXprv.some)
    THEN Thrown("", "ecdhXprv property must be set or password and encrypted encryptedECDHXprv must be provided")
    ELSE
    LET xprvDecryption == Decrypt(responseBody.encryptedECDHXprv, password)
        ecdhXprv       == IF cachedXprv.some THEN cachedXprv.v
                          ELSE xprvDecryption.plaintext
    IN  IF ~cachedXprv.some /\ xprvDecryption.threw
        THEN Thrown(ECDH_XPRV_DECRYPTION_FAILURE, "sjcl: decryption failed")
        ELSE IF ecdhXprv \notin ClientXprvs
        THEN Thrown("", "Invalid checksum")
        ELSE
        LET derivationPath == responseBody.derivationPath.v
            secret == PointEncodedHex(EcdhPoint(ServerXpub, derivationPath,
                                                ecdhXprv, derivationPath))
            tokenDecryption == Decrypt(responseBody.encryptedToken, Some(secret))
        IN  IF tokenDecryption.threw
            THEN Thrown(TOKEN_DECRYPTION_FAILURE, "sjcl: decryption failed")
            ELSE Returned([ token    |-> tokenDecryption.plaintext,
                            ecdhXprv |-> IF cachedXprv.some THEN None
                                         ELSE Some(ecdhXprv) ])

\* ---- the calls tried ----

IssuedTokens == { "v2xIssuedToken" }
Passwords == { "password", "oldPassword" }

\* what the server can have sealed the token under: the encoding of the
\* point of its derived key and the client's, or the x-coordinate alone
IssuanceSecrets ==
    { PointEncodedHex(EcdhPoint(ServerXpub, p, x, p)) :
        p \in DerivationPaths, x \in { "xprvClient" } }
    \cup { AffineXHex(EcdhPoint(ServerXpub, p, x, p)) :
        p \in DerivationPaths, x \in { "xprvClient" } }

OptionalOf(S) == { None } \cup { Some(x) : x \in S }

ResponseBodies ==
    [ derivationPath    : OptionalOf(DerivationPaths),
      encryptedECDHXprv : OptionalOf({ Sealed("password", "xprvClient"),
                                       Sealed("password", "not an xprv"),
                                       CorruptCiphertext }),
      encryptedToken    : OptionalOf({ Sealed(k, t) : k \in IssuanceSecrets,
                                                      t \in IssuedTokens }
                                        \cup { CorruptCiphertext }) ]

IssuanceCalls ==
    [ cachedXprv   : OptionalOf(ClientXprvs),
      responseBody : ResponseBodies,
      password     : OptionalOf(Passwords) ]

NoIssueError == [threw |-> FALSE, errorCode |-> "", message |-> ""]

IssInit ==
    /\ issPc = "call"
    /\ issIn \in IssuanceCalls
    /\ issOut = NoIssue
    /\ issErr = NoIssueError

IssIdle ==
    /\ issPc = "idle"
    /\ issIn = [cachedXprv |-> None, password |-> None,
                responseBody |-> [derivationPath |-> None,
                                  encryptedECDHXprv |-> None,
                                  encryptedToken |-> None]]
    /\ issOut = NoIssue
    /\ issErr = NoIssueError

\* a call of handleTokenIssuance runs to its return or to the throw that
\* leaves it
CallHandleTokenIssuance ==
    /\ issPc = "call"
    /\ LET r == HandleTokenIssuance(issIn.cachedXprv, issIn.responseBody,
                                    issIn.password)
       IN  /\ issPc' = IF r.threw THEN "thrown" ELSE "returned"
           /\ issOut' = r.response
           /\ issErr' = [threw |-> r.threw, errorCode |-> r.errorCode,
                         message |-> r.message]
    /\ UNCHANGED issIn
    /\ UNCHANGED <<addrVars, recVars, chanVars, bootVars, sessVars, cacheVars, genVars, explVars, ledgVars, authVars>>

IssNext == CallHandleTokenIssuance

-----------------------------------------------------------------------------
(* The session token and the patched request: data *)

\* access tokens: one of the current format, one of 67 characters without the
\* v2x prefix, one of the old format of 40 characters
Tokens == { "v2xTokenA", "plain67Token", "legacy40Token" }

\* bitgo._token.length
TokenLength(t) == IF t = "legacy40Token" THEN 40 ELSE 67

\* bitgo._token.indexOf('v2x') === 0
StartsWithV2x(t) == t = "v2xTokenA"

\* sjcl.codec.hex.fromBits(sjcl.hash.sha256.hash(token))
Sha256Hex(t) == [kind |-> "sha256", of |-> t]
\* the token itself, as text
RawText(t) == [kind |-> "raw", of |-> t]
\* 'Bearer ' + null or undefined
NullText == [kind |-> "null", of |-> ""]

Bearer(credential) == [scheme |-> "Bearer", credential |-> credential]

\* sjcl.codec.hex.fromBits(new sjcl.misc.hmac(key, sha256).mac(message))
Hmac(key, message) == [key |-> key, message |-> message]
\* hex text that is the HMAC of nothing the model signs
ForgedHmac == [key |-> "", message |-> <<>>]

Unset(default) == [set |-> FALSE, v |-> default]
SetTo(x) == [set |-> TRUE, v |-> x]

NoHeaders ==
    [ Authorization    |-> Unset(Bearer(NullText)),
      BitGoAuthVersion |-> Unset(""),
      IfModifiedSince  |-> Unset(""),
      AuthTimestamp    |-> Unset(0),
      HMAC             |-> Unset(ForgedHmac),
      UserAgent        |-> Unset("") ]

\* the URLs requests are made to, and query strings added by req.query()
RequestUrls ==
    { <<"h", ":", "/", "/", "s", "/", "p">>,
      <<"h", ":", "/", "/", "s", "/", "p", "?", "a", "=", "1">> }
AddedQueries == { None, Some(<<"b", "=", "2">>) }

\* the body given to req.send(): nothing, a string, or an object, which the
\* serializer of the content type turns into its JSON text
NoData == [kind |-> "undefined", text |-> <<>>]
RequestData == { NoData, [kind |-> "object", text |-> <<"{", "}">>] }

\* the values Date.now() returns
MaxClock == 2
Timestamps == 1..MaxClock

RequestArgs ==
    [ url : RequestUrls, query : AddedQueries, data : RequestData,
      forceV1Auth : BOOLEAN ]

NewRequest(args) ==
    [ args              |-> args,
      url               |-> args.url,
      query             |-> args.query,
      data              |-> args.data,
      forceV1Auth       |-> args.forceV1Auth,
      isV2Authenticated |-> FALSE,
      headers           |-> [NoHeaders EXCEPT !.UserAgent = SetTo("BitGoJS")],
      ended             |-> FALSE ]

NoWire == [sent |-> FALSE, token |-> None, url |-> <<>>, headers |-> NoHeaders,
           body |-> <<>>]

NoResponse == [present |-> FALSE, statusCode |-> 0, text |-> <<>>,
               timestamp |-> None, hmac |-> Unset(ForgedHmac)]

NoVerdict == [outcome |-> "none", status |-> 0, compared |-> FALSE]

-----------------------------------------------------------------------------
(* req.end and req.verifyResponse *)

\* mutant of the condition of lines 254-255: forceV1Auth is not looked at
UseV1AuthIgnoringForce(tok, forceV1Auth) ==
    tok.some /\ TokenLength(tok.v) # 67 /\ ~StartsWithV2x(tok.v)

\* lines 254-255: the condition of the old method
UseV1Auth(tok, forceV1Auth) ==
    \/ (tok.some /\ TokenLength(tok.v) # 67 /\ ~StartsWithV2x(tok.v))
    \/ forceV1Auth

\* lines 268-288: the body as text
SerializeData(data) == data.text

\* lines 292-301: the query string taken from the request (and cleared there)
PendingQueryString(r) == IF r.query.some THEN r.query.v ELSE <<>>

\* lines 303-311: the URL with the query string appended to its search
UrlWithQuery(requestUrl, queryString) ==
    IF queryString = <<>> THEN requestUrl
    ELSE With(UrlParse(requestUrl), LAMBDA urlDetails :
         UrlFormat([urlDetails EXCEPT !.search = Some(
             IF urlDetails.search.some /\ urlDetails.search.v # <<>>
             THEN urlDetails.search.v \o <<"&">> \o queryString
             ELSE <<"?">> \o queryString)]))

\* mutant of lines 313 and 350: the query is left out of the path
QueryPathWithoutQuery(urlDetails) == urlDetails.pathname.v

\* lines 313 and 350: path with the query if there is one, else the pathname
QueryPath(urlDetails) ==
    IF urlDetails.query.some /\ Len(urlDetails.query.v) > 0
    THEN urlDetails.path.v ELSE urlDetails.pathname.v

\* [a, b, ...].join('|')
JoinBar(parts) == JoinWith(parts, <<"|">>)

\* line 315
RequestSignatureSubject(timestamp, queryPath, data) ==
    JoinBar(<<IntText(timestamp), queryPath, data>>)

\* mutant of lines 319-324: the token itself is the credential
V2AuthorizationRaw(tok) == Bearer(RawText(tok))

\* lines 319-324: the credential of a v2 request
V2Authorization(tok) == Bearer(Sha256Hex(tok))

\* line 259: the credential of a v1 request
V1Authorization(tok) == Bearer(IF tok.some THEN RawText(tok.v) ELSE NullText)

\* req.end() with Date.now() = timestamp: the request after the call
EndRequest(r, tok, timestamp) ==
    IF UseV1Auth(tok, r.forceV1Auth)
    THEN [r EXCEPT !.isV2Authenticated = FALSE,
                   !.headers.Authorization = SetTo(V1Authorization(tok)),
                   !.ended = TRUE]
    ELSE IF ~tok.some
    THEN [r EXCEPT !.isV2Authenticated = TRUE,
                   !.headers.BitGoAuthVersion = SetTo("2.0"),
                   !.headers.IfModifiedSince = SetTo("Mon, 26 Jul 1997 05:00:00 GMT"),
                   !.ended = TRUE]
    ELSE With(SerializeData(r.data), LAMBDA data :
         With(UrlWithQuery(r.url, PendingQueryString(r)), LAMBDA newUrl :
             [r EXCEPT !.isV2Authenticated = TRUE,
                       !.headers.BitGoAuthVersion = SetTo("2.0"),
                       !.headers.IfModifiedSince = SetTo("Mon, 26 Jul 1997 05:00:00 GMT"),
                       !.data = [kind |-> IF r.data.kind = "undefined"
                                          THEN "undefined" ELSE "string",
                                 text |-> data],
                       !.url = newUrl,
                       !.query = None,
                       !.headers.AuthTimestamp = SetTo(timestamp),
                       !.headers.Authorization = SetTo(V2Authorization(tok.v)),
                       !.headers.HMAC = SetTo(Hmac(tok.v,
                           RequestSignatureSubject(timestamp,
                               QueryPath(UrlParse(newUrl)), data))),
                       !.ended = TRUE]))

\* what prototypicalEnd puts on the wire: the URL with the query string still
\* pending on the request, the headers, the body
WireOf(r, tok) ==
    [ sent    |-> TRUE,
      token   |-> tok,
      url     |-> UrlWithQuery(r.url, PendingQueryString(r)),
      headers |-> r.headers,
      body    |-> SerializeData(r.data) ]

\* mutant of line 352: the status code is left out of the message
ResponseSignatureSubjectNoStatus(timestamp, queryPath, statusCode, text) ==
    JoinBar(<<timestamp.v, queryPath, text>>)

\* line 352
ResponseSignatureSubject(timestamp, queryPath, statusCode, text) ==
    JoinBar(<<timestamp.v, queryPath, IntText(statusCode), text>>)

\* req.verifyResponse(response): whether it returns the response or throws,
\* the status of the error, and whether the HMAC was compared at all
VerifyResponse(r, tok, resp) ==
    IF ~r.isV2Authenticated \/ ~tok.some
    THEN [outcome |-> "returned", status |-> 0, compared |-> FALSE]
    ELSE LET urlDetails   == UrlParse(r.url)
             queryPath    == QueryPath(urlDetails)
             subject      == ResponseSignatureSubject(resp.timestamp, queryPath,
                                                      resp.statusCode, resp.text)
             expectedHmac == Hmac(tok.v, subject)
         IN  IF ~resp.hmac.set \/ expectedHmac # resp.hmac.v
             THEN [outcome |-> "thrown", status |-> 511, compared |-> TRUE]
             ELSE [outcome |-> "returned", status |-> 0, compared |-> TRUE]

-----------------------------------------------------------------------------
(* The server, the network, and the steps of one request *)

StatusCodes == { 200, 404 }

\* response bodies; the long one holds text that reads as the end of one
\* signed message and the start of another
Bodies == { <<"y">>, <<"x", "|", "/", "p", "|", "4", "0", "4", "|", "y">> }

\* the timestamp header as the server writes it, and as the network can
\* rewrite it
ServerTimestamps == { <<"1">> }
NetworkTimestamps ==
    { <<"1">>, <<"2">>, <<"1", "|", "/", "p", "|", "2", "0", "0", "|", "x">> }

\* a path of another request, whose signed response the network can replay
OtherPath == <<"/", "q">>

\* the server signs timestamp, path, status and body with the token whose hash
\* the request presented; a request without that credential gets no hmac
ServerResponse(w, signedPath, statusCode, text, timestamp) ==
    [ present    |-> TRUE,
      statusCode |-> statusCode,
      text       |-> text,
      timestamp  |-> Some(timestamp),
      hmac       |-> IF /\ w.headers.HMAC.set
                        /\ w.headers.Authorization.set
                        /\ w.headers.Authorization.v.credential.kind = "sha256"
                     THEN SetTo(Hmac(w.headers.Authorization.v.credential.of,
                                     ResponseSignatureSubject(Some(timestamp),
                                         signedPath, statusCode, text)))
                     ELSE Unset(ForgedHmac) ]

NoServed == [response |-> NoResponse, signedPath |-> <<>>]

\* a request args that no step acts on
NoRequest ==
    [ NewRequest([url |-> <<>>, query |-> None, data |-> NoData,
                  forceV1Auth |-> FALSE]) EXCEPT !.ended = TRUE ]

ChanInit ==
    /\ token \in OptionalOf(Tokens)
    /\ req \in { NewRequest(a) : a \in RequestArgs }
    /\ wire = NoWire
    /\ served = NoServed
    /\ response = NoResponse
    /\ verdict = NoVerdict

ChanIdle ==
    /\ token = None
    /\ req = NoRequest
    /\ wire = NoWire
    /\ served = NoServed
    /\ response = NoResponse
    /\ verdict = NoVerdict

\* req.then() for the first time: req.end() runs and the request goes out
End ==
    /\ ~req.ended
    /\ \E timestamp \in Timestamps : req' = EndRequest(req, token, timestamp)
    /\ wire' = WireOf(req', token)
    /\ UNCHANGED <<token, served, response, verdict>>
    /\ UNCHANGED <<addrVars, recVars, issVars, bootVars, sessVars, cacheVars, genVars, explVars, ledgVars, authVars>>

\* the server answers the request it received, or the network replays an
\* answer the server gave for another path
Respond ==
    /\ wire.sent
    /\ ~served.response.present
    /\ \E statusCode \in StatusCodes, text \in Bodies,
          timestamp \in ServerTimestamps,
          signedPath \in { QueryPath(UrlParse(wire.url)), OtherPath } :
         /\ served' = [response   |-> ServerResponse(wire, signedPath,
                                          statusCode, text, timestamp),
                       signedPath |-> signedPath]
         /\ response' = served'.response
    /\ UNCHANGED <<token, req, wire, verdict>>
    /\ UNCHANGED <<addrVars, recVars, issVars, bootVars, sessVars, cacheVars, genVars, explVars, ledgVars, authVars>>

\* the network rewrites the response on its way: any status, body and
\* timestamp, and the hmac header kept, dropped or replaced by one it made up
Tamper ==
    /\ response.present
    /\ response = served.response
    /\ verdict.outcome = "none"
    /\ \E statusCode \in StatusCodes, text \in Bodies,
          timestamp \in OptionalOf(NetworkTimestamps),
          hmac \in { served.response.hmac, SetTo(ForgedHmac), Unset(ForgedHmac) } :
         /\ response' = [present |-> TRUE, statusCode |-> statusCode,
                         text |-> text, timestamp |-> timestamp, hmac |-> hmac]
         /\ response' # served.response
    /\ UNCHANGED <<token, req, wire, served, verdict>>
    /\ UNCHANGED <<addrVars, recVars, issVars, bootVars, sessVars, cacheVars, genVars, explVars, ledgVars, authVars>>

\* the promise of req.end() resolves and req.verifyResponse runs
Verify ==
    /\ response.present
    /\ verdict.outcome = "none"
    /\ verdict' = VerifyResponse(req, token, response)
    /\ UNCHANGED <<token, req, wire, served, response>>
    /\ UNCHANGED <<addrVars, recVars, issVars, bootVars, sessVars, cacheVars, genVars, explVars, ledgVars, authVars>>

\* BitGo.prototype.authenticateWithAccessToken, while the request is pending
AuthenticateWithAccessToken ==
    /\ verdict.outcome = "none"
    /\ \E accessToken \in Tokens :
         /\ token # Some(accessToken)
         /\ token' = Some(accessToken)
    /\ UNCHANGED <<req, wire, served, response, verdict>>
    /\ UNCHANGED <<addrVars, recVars, issVars, bootVars, sessVars, cacheVars, genVars, explVars, ledgVars, authVars>>

\* BitGo.prototype.clear, while the request is pending
Clear ==
    /\ verdict.outcome = "none"
    /\ token.some
    /\ token' = None
    /\ UNCHANGED <<req, wire, served, response, verdict>>
    /\ UNCHANGED <<addrVars, recVars, issVars, bootVars, sessVars, cacheVars, genVars, explVars, ledgVars, authVars>>

ChanNext ==
    \/ End
    \/ Respond
    \/ Tamper
    \/ Verify
    \/ AuthenticateWithAccessToken
    \/ Clear

-----------------------------------------------------------------------------
(* The session of a BitGo object: logout, addAccessToken and a plain request *)

\* the number of calls made on the object one after the other, and of the
\* further then() put on the request of a call
MaxCalls == 2
MaxThens == 1

\* this.url('/user/logout'), this.url('/user/accesstoken'), and the url of a
\* request that only reads
LogoutUrl      == <<"h", ":", "/", "/", "s", "/", "l">>
AccessTokenUrl == <<"h", ":", "/", "/", "s", "/", "t">>
PlainUrl       == <<"h", ":", "/", "/", "s", "/", "g">>

\* the response texts and the bodies they parse to: the answer of the server
\* to addAccessToken, an older answer of the server to the same call that the
\* network has kept, an answer whose token is no ciphertext, and the answer
\* to anything else
IssuedText   == <<"y">>
ReplayedText == <<"z">>
CorruptText  == <<"c">>
OtherText    == <<"o">>
SessionSecret == PointEncodedHex(EcdhPoint(ServerXpub, "m/1", "xprvClient", "m/1"))
OtherBody == [derivationPath |-> None, encryptedECDHXprv |-> None, encryptedToken |-> None]
BodyOf(text) ==
    CASE text = IssuedText ->
           [ derivationPath |-> Some("m/1"), encryptedECDHXprv |-> None,
             encryptedToken |-> Some(Sealed(SessionSecret, "v2xIssuedToken")) ]
      [] text = ReplayedText ->
           [ derivationPath |-> Some("m/1"), encryptedECDHXprv |-> None,
             encryptedToken |-> Some(Sealed(SessionSecret, "v2xReplayedToken")) ]
      [] text = CorruptText ->
           [ derivationPath |-> Some("m/1"), encryptedECDHXprv |-> None,
             encryptedToken |-> Some(CorruptCiphertext) ]
      [] OTHER -> OtherBody

\* the texts the server answers a request with
ServerTexts(url, statusCode) ==
    IF url = AccessTokenUrl /\ statusCode = 200
    THEN { IssuedText, CorruptText } ELSE { OtherText }

NoResult == [token |-> None, warning |-> FALSE]
NoCall ==
    [ op |-> "none", n |-> 0, state |-> "none", previous |-> <<"none", "none">>,
      lastPromise |-> FALSE,
      thens |-> 0, dispatched |-> 0, verified |-> 0, reverified |-> 0,
      decrypted |-> 0,
      result |-> NoResult, error |-> "" ]

\* a method creates its request: nothing has been chained on it yet; c is
\* the call before, whose method and outcome are kept
NewCall(op, c) ==
    [NoCall EXCEPT !.op = op, !.n = c.n + 1, !.state = "pending",
                   !.previous = <<c.op, c.state>>]

\* mutant of the condition of req.then: every then() starts the request
ThenStartsRequestAlways(c) == TRUE

\* if (!lastPromise): the first then() on a request starts it
ThenStartsRequest(c) == ~c.lastPromise

\* BitGo.prototype.clear applied to the fields of the session
ClearedFields == [user |-> None, token |-> None, refreshToken |-> None]

\* handleResponseResult(): the body of a response of status 2xx, an error of
\* any other
ResultIsBody(statusCode) == statusCode >= 200 /\ statusCode < 300

\* the handler addAccessToken puts on its request, for a response that
\* req.then has verified: what it verifies, decrypts and hands on
AddAccessTokenHandler(r, tok, xprv, resp) ==
    IF r.forceV1Auth
    THEN [ threw |-> FALSE, error |-> "", verified |-> 0, decrypted |-> 0,
           result |-> [token |-> None, warning |-> TRUE] ]
    ELSE IF VerifyResponse(r, tok, resp).outcome = "thrown"
    THEN [ threw |-> TRUE, error |-> "invalid response HMAC", verified |-> 1,
           decrypted |-> 0, result |-> NoResult ]
    ELSE With(HandleTokenIssuance(xprv, BodyOf(resp.text), None), LAMBDA issued :
         IF issued.threw
         THEN [ threw |-> TRUE,
                error |-> IF issued.errorCode # "" THEN issued.errorCode
                          ELSE issued.message,
                verified |-> 1,
                decrypted |-> IF issued.errorCode = TOKEN_DECRYPTION_FAILURE
                              THEN 1 ELSE 0,
                result |-> NoResult ]
         ELSE [ threw |-> FALSE, error |-> "", verified |-> 1, decrypted |-> 1,
                result |-> [token |-> Some(issued.response.token),
                            warning |-> FALSE] ])

-----------------------------------------------------------------------------
(* The steps of the calls on a session *)

\* the fields of an object just made, of one made with an access token of
\* the old format, of one logged in by authenticate, and of one logged in by
\* authenticateWithAuthCode
SessionsAtStart ==
    { [user |-> None, token |-> None, refreshToken |-> None],
      [user |-> None, token |-> Some("legacy40Token"), refreshToken |-> None],
      [user |-> Some("user"), token |-> Some("v2xTokenA"), refreshToken |-> None],
      [user |-> Some("user"), token |-> Some("v2xTokenA"),
       refreshToken |-> Some("refresh")] }

SessInit ==
    /\ \E s \in SessionsAtStart :
          /\ token = s.token
          /\ user = s.user
          /\ refreshToken = s.refreshToken
    /\ sessEcdhXprv \in OptionalOf({ "xprvClient" })
    /\ call = NoCall
    /\ sent = << >>
    /\ req = NoRequest
    /\ wire = NoWire
    /\ served = NoServed
    /\ response = NoResponse
    /\ verdict = NoVerdict

SessIdle ==
    /\ user = None
    /\ refreshToken = None
    /\ sessEcdhXprv = None
    /\ call = NoCall
    /\ sent = << >>

\* req.then(...) on the request r of the call c, with Date.now() = timestamp:
\* the request, the call and the requests handed to the network afterwards
ReqThen(c, r, timestamp) ==
    IF ThenStartsRequest(c)
    THEN With(EndRequest(r, token, timestamp), LAMBDA ended :
           [ req  |-> ended,
             call |-> [c EXCEPT !.lastPromise = TRUE, !.thens = c.thens + 1,
                                !.dispatched = c.dispatched + 1],
             sent |-> Append(sent, WireOf(ended, token)) ])
    ELSE [ req  |-> r,
           call |-> [c EXCEPT !.thens = c.thens + 1],
           sent |-> sent ]

\* a method creates the request r and puts its first then() on it
StartCall(op, r) ==
    /\ call.state \in { "none", "resolved", "rejected" }
    /\ call.n < MaxCalls
    /\ \E timestamp \in Timestamps :
         With(ReqThen(NewCall(op, call), r, timestamp), LAMBDA after :
           /\ req' = after.req
           /\ call' = after.call
           /\ sent' = after.sent
           /\ wire' = after.sent[Len(after.sent)])
    /\ served' = NoServed
    /\ response' = NoResponse
    /\ verdict' = NoVerdict
    /\ UNCHANGED <<token, user, refreshToken, sessEcdhXprv>>
    /\ UNCHANGED <<addrVars, recVars, issVars, bootVars, cacheVars, genVars, explVars, ledgVars, authVars>>

\* BitGo.prototype.logout up to the request going out
Logout ==
    StartCall("logout", NewRequest([url |-> LogoutUrl, query |-> None,
                                    data |-> NoData, forceV1Auth |-> FALSE]))

\* BitGo.prototype.addAccessToken up to the request going out: without
\* _ecdhXprv the request is forced to the old method
AddAccessToken ==
    StartCall("addAccessToken",
              NewRequest([url |-> AccessTokenUrl, query |-> None,
                          data |-> [kind |-> "object", text |-> <<"{", "}">>],
                          forceV1Auth |-> ~sessEcdhXprv.some]))

\* a method that only reads: this.get(url).result()
Get ==
    StartCall("get", NewRequest([url |-> PlainUrl, query |-> None,
                                 data |-> NoData, forceV1Auth |-> FALSE]))

\* the caller puts one more then() on the request of the call
ThenAgain ==
    /\ call.state # "none"
    /\ call.thens < 1 + MaxThens
    /\ \E timestamp \in Timestamps :
         With(ReqThen(call, req, timestamp), LAMBDA after :
           /\ req' = after.req
           /\ call' = after.call
           /\ sent' = after.sent
           /\ wire' = IF Len(after.sent) > Len(sent)
                      THEN after.sent[Len(after.sent)] ELSE wire)
    /\ UNCHANGED <<token, user, refreshToken, sessEcdhXprv, served, response, verdict>>
    /\ UNCHANGED <<addrVars, recVars, issVars, bootVars, cacheVars, genVars, explVars, ledgVars, authVars>>

\* the server answers the request of the call
SessRespond ==
    /\ call.state = "pending"
    /\ ~served.response.present
    /\ \E statusCode \in StatusCodes, timestamp \in ServerTimestamps :
       \E text \in ServerTexts(wire.url, statusCode) :
         /\ served' = [response   |-> ServerResponse(wire, QueryPath(UrlParse(wire.url)),
                                          statusCode, text, timestamp),
                       signedPath |-> QueryPath(UrlParse(wire.url))]
         /\ response' = served'.response
    /\ UNCHANGED <<token, req, wire, verdict, sessVars>>
    /\ UNCHANGED <<addrVars, recVars, issVars, bootVars, cacheVars, genVars, explVars, ledgVars, authVars>>

\* the network puts another answer in the place of the server's: the older
\* answer it has kept, with the hmac header kept, dropped or made up
SessTamper ==
    /\ call.state = "pending"
    /\ response.present
    /\ response = served.response
    /\ \E hmac \in { served.response.hmac, SetTo(ForgedHmac), Unset(ForgedHmac) },
          text \in { served.response.text, ReplayedText } :
         /\ response' = [served.response EXCEPT !.text = text, !.hmac = hmac,
                                                !.statusCode = 200]
         /\ response' # served.response
    /\ UNCHANGED <<token, req, wire, served, verdict, sessVars>>
    /\ UNCHANGED <<addrVars, recVars, issVars, bootVars, cacheVars, genVars, explVars, ledgVars, authVars>>

\* no response arrives: the promise of req.end() is rejected, no handler of
\* the response runs, and handleResponseError throws the error on
SessNetworkError ==
    /\ call.state = "pending"
    /\ ~response.present
    /\ call' = [call EXCEPT !.state = "rejected", !.error = "network error"]
    /\ UNCHANGED <<token, req, wire, served, response, verdict>>
    /\ UNCHANGED <<user, refreshToken, sessEcdhXprv, sent>>
    /\ UNCHANGED <<addrVars, recVars, issVars, bootVars, cacheVars, genVars, explVars, ledgVars, authVars>>

\* the response arrives and the chain of the call runs: req.verifyResponse,
\* then the handlers the method has put on the request
SessSettle ==
    /\ call.state = "pending"
    /\ response.present
    /\ verdict' = VerifyResponse(req, token, response)
    /\ IF verdict'.outcome = "thrown"
       THEN /\ call' = [call EXCEPT !.state = "rejected",
                                    !.verified = call.verified + 1,
                                    !.error = "invalid response HMAC"]
            /\ UNCHANGED <<token, user, refreshToken>>
       ELSE IF call.op = "addAccessToken"
       THEN With(AddAccessTokenHandler(req, token, sessEcdhXprv, response), LAMBDA h :
              /\ call' = [call EXCEPT
                    !.verified   = call.verified + 1,
                    !.reverified = call.reverified + h.verified,
                    !.decrypted = call.decrypted + h.decrypted,
                    !.state  = IF h.threw \/ ~ResultIsBody(response.statusCode)
                               THEN "rejected" ELSE "resolved",
                    !.error  = IF h.threw THEN h.error
                               ELSE IF ~ResultIsBody(response.statusCode)
                               THEN "status" ELSE "",
                    !.result = IF h.threw \/ ~ResultIsBody(response.statusCode)
                               THEN NoResult ELSE h.result]
              /\ UNCHANGED <<token, user, refreshToken>>)
       ELSE IF ~ResultIsBody(response.statusCode)
       THEN /\ call' = [call EXCEPT !.state = "rejected",
                                    !.verified = call.verified + 1,
                                    !.error = "status"]
            /\ UNCHANGED <<token, user, refreshToken>>
       ELSE /\ call' = [call EXCEPT !.state = "resolved",
                                    !.verified = call.verified + 1]
            /\ IF call.op = "logout"
               THEN /\ user' = ClearedFields.user
                    /\ token' = ClearedFields.token
                    /\ refreshToken' = ClearedFields.refreshToken
               ELSE UNCHANGED <<token, user, refreshToken>>
    /\ UNCHANGED <<req, wire, served, response, sessEcdhXprv, sent>>
    /\ UNCHANGED <<addrVars, recVars, issVars, bootVars, cacheVars, genVars, explVars, ledgVars, authVars>>

SessNext ==
    \/ Logout
    \/ AddAccessToken
    \/ Get
    \/ ThenAgain
    \/ SessRespond
    \/ SessTamper
    \/ SessNetworkError
    \/ SessSettle

-----------------------------------------------------------------------------
(* BitGo.prototype.fetchConstants and BitGo.prototype.getConstants *)

\* the seconds the clock of the model runs, and the requests for constants
\* that can be unanswered at a time
MaxTime == 3
MaxFetches == 2

Envs == { "test", "prod" }

\* result.ttl of the server, in seconds
Ttls == { 1, 2 }

\* the keys of the constants of the model
ConstantKeys == { "maxFee", "minFeeRate" }

\* result.constants of the server: an object with some of the keys
ServerConstants ==
    { [maxFee |-> Some(2), minFeeRate |-> None],
      [maxFee |-> None, minFeeRate |-> Some(7)] }

\* defaultConstants of getConstants (the keys of the model)
DefaultConstants == [maxFee |-> Some(10), minFeeRate |-> Some(5)]

\* _.merge({}, defaultConstants, cached): a key of the cached object where it
\* has one, the default elsewhere; cached is the entry of the environment,
\* which may be undefined
Merge(defaults, cached) ==
    IF ~cached.some THEN defaults
    ELSE [ k \in ConstantKeys |->
             IF cached.v[k].some THEN cached.v[k] ELSE defaults[k] ]

\* mutant of the comparison of fetchConstants: the moment of expiry counts as
\* not expired
NotExpiredInclusive(time, expire) == time <= expire

\* new Date() < BitGo._constantsExpire[env]
NotExpired(time, expire) == time < expire

\* the condition under which fetchConstants answers from the cache
ServedFromCache(env) ==
    /\ constants[env].some
    /\ constantsExpire[env].some
    /\ NotExpired(now, constantsExpire[env].v)

NoRead ==
    [ op |-> "none", env |-> "", time |-> 0, source |-> "none",
      value |-> None, expire |-> None, fetching |-> FALSE ]

CacheInit ==
    /\ now = 0
    /\ constants = [ e \in Envs |-> None ]
    /\ constantsExpire = [ e \in Envs |-> None ]
    /\ constantFetches = << >>
    /\ constantsRead = NoRead

CacheIdle ==
    /\ now = 0
    /\ constants = << >>
    /\ constantsExpire = << >>
    /\ constantFetches = << >>
    /\ constantsRead = NoRead

\* a second passes
Tick ==
    /\ now < MaxTime
    /\ now' = now + 1
    /\ UNCHANGED <<constants, constantsExpire, constantFetches, constantsRead>>
    /\ UNCHANGED <<addrVars, recVars, issVars, chanVars, bootVars, sessVars, genVars, explVars, ledgVars, authVars>>

\* fetchConstants on an object of environment env, up to its return: the
\* cached constants if they have not expired, else a request is made
FetchConstants(env) ==
    /\ IF ServedFromCache(env)
       THEN /\ constantsRead' =
                 [ op |-> "fetchConstants", env |-> env, time |-> now,
                   source |-> "cache", value |-> constants[env],
                   expire |-> constantsExpire[env], fetching |-> FALSE ]
            /\ UNCHANGED constantFetches
       ELSE /\ Len(constantFetches) < MaxFetches
            /\ constantFetches' = Append(constantFetches, env)
            /\ constantsRead' =
                 [ op |-> "fetchConstants", env |-> env, time |-> now,
                   source |-> "pending", value |-> None,
                   expire |-> constantsExpire[env], fetching |-> TRUE ]
    /\ UNCHANGED <<now, constants, constantsExpire>>
    /\ UNCHANGED <<addrVars, recVars, issVars, chanVars, bootVars, sessVars, genVars, explVars, ledgVars, authVars>>

\* getConstants on an object of environment env: fetchConstants is called
\* and its promise dropped, and the cached entry, whatever its age, is merged
\* over the defaults and returned
GetConstants(env) ==
    /\ IF ServedFromCache(env)
       THEN UNCHANGED constantFetches
       ELSE /\ Len(constantFetches) < MaxFetches
            /\ constantFetches' = Append(constantFetches, env)
    /\ constantsRead' =
         [ op |-> "getConstants", env |-> env, time |-> now,
           source |-> IF constants[env].some THEN "cache" ELSE "defaults",
           value |-> Some(Merge(DefaultConstants, constants[env])),
           expire |-> constantsExpire[env],
           fetching |-> ~ServedFromCache(env) ]
    /\ UNCHANGED <<now, constants, constantsExpire>>
    /\ UNCHANGED <<addrVars, recVars, issVars, chanVars, bootVars, sessVars, genVars, explVars, ledgVars, authVars>>

\* a sequence without its i-th element
RemoveAt(seq, i) == SubSeq(seq, 1, i - 1) \o SubSeq(seq, i + 1, Len(seq))

\* mutant of the handler of lines 1474-1476: the expiry is not assigned
ConstantsFetchedValueOnly ==
    /\ constantFetches # << >>
    /\ \E i \in 1..Len(constantFetches) :
       \E result \in [ constants : ServerConstants, ttl : Ttls ] :
         With(constantFetches[i], LAMBDA env :
           /\ constants' = [constants EXCEPT ![env] = Some(result.constants)]
           /\ constantsExpire' = constantsExpire
           /\ constantFetches' = RemoveAt(constantFetches, i)
           /\ constantsRead' =
                [ op |-> "fetchConstants", env |-> env, time |-> now,
                  source |-> "server", value |-> Some(result.constants),
                  expire |-> Some(now + result.ttl), fetching |-> FALSE ])
    /\ UNCHANGED now
    /\ UNCHANGED <<addrVars, recVars, issVars, chanVars, bootVars, sessVars, genVars, explVars, ledgVars, authVars>>

\* the server answers one of the requests for constants, in any order: the
\* entry of the environment of that call and its expiry are assigned in the
\* same handler, and the promise of fetchConstants resolves with the entry
ConstantsFetched ==
    /\ constantFetches # << >>
    /\ \E i \in 1..Len(constantFetches) :
       \E result \in [ constants : ServerConstants, ttl : Ttls ] :
         With(constantFetches[i], LAMBDA env :
           /\ constants' = [constants EXCEPT ![env] = Some(result.constants)]
           /\ constantsExpire' = [constantsExpire EXCEPT ![env] = Some(now + result.ttl)]
           /\ constantFetches' = RemoveAt(constantFetches, i)
           /\ constantsRead' =
                [ op |-> "fetchConstants", env |-> env, time |-> now,
                  source |-> "server", value |-> Some(result.constants),
                  expire |-> Some(now + result.ttl), fetching |-> FALSE ])
    /\ UNCHANGED now
    /\ UNCHANGED <<addrVars, recVars, issVars, chanVars, bootVars, sessVars, genVars, explVars, ledgVars, authVars>>

\* one of the requests for constants fails: the promise of fetchConstants is
\* rejected and the cache stays as it is
ConstantsFetchFails ==
    /\ constantFetches # << >>
    /\ \E i \in 1..Len(constantFetches) :
         /\ constantFetches' = RemoveAt(constantFetches, i)
         /\ constantsRead' =
              [ op |-> "fetchConstants", env |-> constantFetches[i], time |-> now,
                source |-> "failed", value |-> None,
                expire |-> constantsExpire[constantFetches[i]], fetching |-> FALSE ]
    /\ UNCHANGED <<now, constants, constantsExpire>>
    /\ UNCHANGED <<addrVars, recVars, issVars, chanVars, bootVars, sessVars, genVars, explVars, ledgVars, authVars>>

CallFetchConstants == \E env \in Envs : FetchConstants(env)
CallGetConstants == \E env \in Envs : GetConstants(env)

CacheNext ==
    \/ Tick
    \/ CallFetchConstants
    \/ CallGetConstants
    \/ ConstantsFetched
    \/ ConstantsFetchFails

-----------------------------------------------------------------------------
(* Wallets.prototype.generateWallet *)

\* params: whether userKey, a passphrase that can encrypt, backupXpub and
\* backupXpubProvider are given
GenerateWalletParams ==
    [ userKey : BOOLEAN, canEncrypt : BOOLEAN, backupXpub : BOOLEAN,
      backupXpubProvider : BOOLEAN, rootPrivateKey : { "", "rootKeyGiven" } ]

\* baseCoin.getFamily() of the coin of this model
GetFamily == "xrp"

\* the key supplementGenerateWallet makes when none is given
GeneratedRootKey == "prvGenerated"

InitializationTxNames == { "setMultisig", "forceDestinationTag", "disableMasterKey" }

\* the ids the server gives to keychains
KeychainIds == { "id1", "id2", "id3" }

Roles == { "user", "backup", "bitgo" }

PendingKeychain == [state |-> "pending", id |-> ""]
FailedKeychain  == [state |-> "failed", id |-> ""]
NotStarted      == [state |-> "none", id |-> ""]

NoGenWalletParams == [built |-> FALSE]
NoGenOut == [state |-> "none", error |-> ""]

\* userKeychainPromise: with userKey the key is added as it is, without it a
\* key is made and encrypted, which takes a passphrase
UserKeychainStarts(params) == params.userKey \/ params.canEncrypt

\* backupKeychainPromise: a provider or a backupXpub is used, else a key is
\* made, which takes a passphrase
BackupKeychainStarts(params) ==
    params.backupXpubProvider \/ params.backupXpub \/ params.canEncrypt

\* mutant of Q.all: the chain goes on when the user keychain is there
KeychainsJoinedUserOnly(keychains) == keychains.user.state = "done"

\* Q.all([userKeychainPromise, backupKeychainPromise, bitgoKeychainPromise])
\* is fulfilled
KeychainsJoined(keychains) == \A role \in Roles : keychains[role].state = "done"

\* Q.all is rejected
KeychainsRejected(keychains) == \E role \in Roles : keychains[role].state = "failed"

\* walletParams as built after Q.all
BuildWalletParams(params, keychains) ==
    [ built |-> TRUE, m |-> 2, n |-> 3,
      keys |-> << keychains.user.id, keychains.backup.id, keychains.bitgo.id >>,
      rootPrivateKey |-> IF GetFamily = "xrp" /\ params.rootPrivateKey # ""
                         THEN Some(params.rootPrivateKey) ELSE None,
      rootPub |-> None, initializationTxs |-> {},
      supplemented |-> FALSE ]

\* what supplementGenerateWallet adds to walletParams (part_000, lines
\* 210-218): rootPub and the three initialization transactions
Supplemented(walletParams) ==
    [ walletParams EXCEPT
        !.rootPub = Some(PublicKeyOf(IF walletParams.rootPrivateKey.some
                                     THEN walletParams.rootPrivateKey.v
                                     ELSE GeneratedRootKey)),
        !.initializationTxs = InitializationTxNames,
        !.supplemented = TRUE ]

KeychainRequest(role) == [route |-> "/key", role |-> role, body |-> NoGenWalletParams]
WalletRequest(walletParams) == [route |-> "/wallet", role |-> "", body |-> walletParams]

GenInit ==
    /\ genPc = "CALL"
    /\ genIn \in GenerateWalletParams
    /\ genKeychains = [ role \in Roles |-> NotStarted ]
    /\ genRequests = {}
    /\ genWalletParams = NoGenWalletParams
    /\ genOut = NoGenOut

GenIdle ==
    /\ genPc = "idle"
    /\ genIn = [ userKey |-> FALSE, canEncrypt |-> FALSE, backupXpub |-> FALSE,
                 backupXpubProvider |-> FALSE, rootPrivateKey |-> "" ]
    /\ genKeychains = [ role \in Roles |-> NotStarted ]
    /\ genRequests = {}
    /\ genWalletParams = NoGenWalletParams
    /\ genOut = NoGenOut

\* generateWallet up to its return: the checks of params, and the three
\* keychain promises started
GenCall ==
    /\ genPc = "CALL"
    /\ IF genIn.backupXpub /\ genIn.backupXpubProvider
       THEN /\ genPc' = "THROWN"
            /\ genOut' = [state |-> "thrown",
                          error |-> "Cannot provide more than one backupXpub or backupXpubProvider flag"]
            /\ UNCHANGED <<genKeychains, genRequests>>
       ELSE /\ genPc' = "KEYCHAINS"
            /\ genKeychains' =
                 [ user   |-> IF UserKeychainStarts(genIn)
                              THEN PendingKeychain ELSE FailedKeychain,
                   backup |-> IF BackupKeychainStarts(genIn)
                              THEN PendingKeychain ELSE FailedKeychain,
                   bitgo  |-> PendingKeychain ]
            /\ genRequests' =
                 { KeychainRequest(role) : role \in
                     { r \in Roles : genKeychains'[r].state = "pending" } }
            /\ UNCHANGED genOut
    /\ UNCHANGED <<genIn, genWalletParams>>
    /\ UNCHANGED <<addrVars, recVars, issVars, chanVars, bootVars, sessVars, cacheVars, explVars, ledgVars, authVars>>

\* the server answers the request of a keychain: the promise of the keychain
\* is fulfilled and the keychain has its id
GenKeychainCreated ==
    /\ \E role \in Roles, id \in KeychainIds :
         /\ genKeychains[role].state = "pending"
         /\ \A other \in Roles : genKeychains[other].id # id
         /\ genKeychains' = [genKeychains EXCEPT ![role] = [state |-> "done", id |-> id]]
    /\ UNCHANGED <<genPc, genIn, genRequests, genWalletParams, genOut>>
    /\ UNCHANGED <<addrVars, recVars, issVars, chanVars, bootVars, sessVars, cacheVars, explVars, ledgVars, authVars>>

\* the request of a keychain fails
GenKeychainFails ==
    /\ \E role \in Roles :
         /\ genKeychains[role].state = "pending"
         /\ genKeychains' = [genKeychains EXCEPT ![role] = FailedKeychain]
    /\ UNCHANGED <<genPc, genIn, genRequests, genWalletParams, genOut>>
    /\ UNCHANGED <<addrVars, recVars, issVars, chanVars, bootVars, sessVars, cacheVars, explVars, ledgVars, authVars>>

\* Q.all is rejected: no handler of the chain runs, the call is rejected
GenKeychainsRejected ==
    /\ genPc = "KEYCHAINS"
    /\ KeychainsRejected(genKeychains)
    /\ genPc' = "REJECTED"
    /\ genOut' = [state |-> "rejected", error |-> "keychain"]
    /\ UNCHANGED <<genIn, genKeychains, genRequests, genWalletParams>>
    /\ UNCHANGED <<addrVars, recVars, issVars, chanVars, bootVars, sessVars, cacheVars, explVars, ledgVars, authVars>>

\* Q.all is fulfilled: walletParams is built and supplementGenerateWallet of
\* the coin is called, which may throw at once
GenSupplement ==
    /\ genPc = "KEYCHAINS"
    /\ KeychainsJoined(genKeychains)
    /\ genWalletParams' = BuildWalletParams(genIn, genKeychains)
    /\ \E throws \in BOOLEAN :
         IF throws
         THEN /\ genPc' = "REJECTED"
              /\ genOut' = [state |-> "rejected", error |-> "supplement"]
         ELSE /\ genPc' = "SUPPLEMENT"
              /\ UNCHANGED genOut
    /\ UNCHANGED <<genIn, genKeychains, genRequests>>
    /\ UNCHANGED <<addrVars, recVars, issVars, chanVars, bootVars, sessVars, cacheVars, explVars, ledgVars, authVars>>

\* supplementGenerateWallet returns walletParams: the wallet is posted
GenSupplementReturns ==
    /\ genPc = "SUPPLEMENT"
    /\ genWalletParams' = Supplemented(genWalletParams)
    /\ genRequests' = genRequests \cup { WalletRequest(genWalletParams') }
    /\ genPc' = "POST"
    /\ UNCHANGED <<genIn, genKeychains, genOut>>
    /\ UNCHANGED <<addrVars, recVars, issVars, chanVars, bootVars, sessVars, cacheVars, explVars, ledgVars, authVars>>

\* the promise of supplementGenerateWallet is rejected
GenSupplementFails ==
    /\ genPc = "SUPPLEMENT"
    /\ genPc' = "REJECTED"
    /\ genOut' = [state |-> "rejected", error |-> "supplement"]
    /\ UNCHANGED <<genIn, genKeychains, genRequests, genWalletParams>>
    /\ UNCHANGED <<addrVars, recVars, issVars, chanVars, bootVars, sessVars, cacheVars, explVars, ledgVars, authVars>>

\* the server answers the post of the wallet: the call resolves
GenWalletCreated ==
    /\ genPc = "POST"
    /\ genPc' = "DONE"
    /\ genOut' = [state |-> "resolved", error |-> ""]
    /\ UNCHANGED <<genIn, genKeychains, genRequests, genWalletParams>>
    /\ UNCHANGED <<addrVars, recVars, issVars, chanVars, bootVars, sessVars, cacheVars, explVars, ledgVars, authVars>>

\* the post of the wallet fails
GenWalletPostFails ==
    /\ genPc = "POST"
    /\ genPc' = "REJECTED"
    /\ genOut' = [state |-> "rejected", error |-> "wallet"]
    /\ UNCHANGED <<genIn, genKeychains, genRequests, genWalletParams>>
    /\ UNCHANGED <<addrVars, recVars, issVars, chanVars, bootVars, sessVars, cacheVars, explVars, ledgVars, authVars>>

GenNext ==
    \/ GenCall
    \/ GenKeychainCreated
    \/ GenKeychainFails
    \/ GenKeychainsRejected
    \/ GenSupplement
    \/ GenSupplementReturns
    \/ GenSupplementFails
    \/ GenWalletCreated
    \/ GenWalletPostFails

-----------------------------------------------------------------------------
(* Xrp.prototype.explainTransaction on the text it is given *)

\* params.txHex is one of: the binary encoding of a transaction in hex
\* (form "hex"), a JSON text (form "json": of a transaction, or the text
\* null), or a text that is neither (form "other")
ExplainTransactions ==
    [ Destination    : { Some(<<"r", "D">>) },
      DestinationTag : { [some |-> FALSE, v |-> NaN],
                         [some |-> TRUE, v |-> Num(FALSE, <<0>>)],
                         [some |-> TRUE, v |-> Num(FALSE, <<5>>)],
                         [some |-> TRUE, v |-> Num(TRUE, <<5>>)] },
      Amount         : { <<"1">>, <<"2", "5">>, <<"9", "0", "0">> },
      Fee            : { <<"3", "0">>, <<"4", "5">> } ]

JsonNull == [isNull |-> TRUE]

ExplainInputs ==
    [ form : { "hex" }, value : ExplainTransactions ]
    \cup [ form : { "json" }, value : ExplainTransactions \cup { JsonNull } ]
    \cup [ form : { "other" }, value : { "", "not a transaction" } ]

ExplThrew(message) == [threw |-> TRUE, message |-> message]
ExplReturned(value) == [threw |-> FALSE, value |-> value]

\* rippleBinaryCodec.decode: throws on a text that is no binary encoding
RippleBinaryDecode(txHex) ==
    IF txHex.form = "hex" THEN ExplReturned(txHex.value)
    ELSE ExplThrew("decode")

\* JSON.parse: never tried
JsonParseNever(txHex) == ExplThrew("SyntaxError")

\* JSON.parse: throws a SyntaxError on a text that is no JSON text
JsonParse(txHex) ==
    IF txHex.form = "json" THEN ExplReturned(txHex.value)
    ELSE ExplThrew("SyntaxError")

NeitherHexNorJson == "txHex needs to be either hex or JSON string for XRP"

\* the try / catch cascade that opens explainTransaction
ParseTransaction(txHex) ==
    IF ~RippleBinaryDecode(txHex).threw THEN RippleBinaryDecode(txHex)
    ELSE IF ~JsonParse(txHex).threw THEN JsonParse(txHex)
    ELSE ExplThrew(NeitherHexNorJson)

\* the rest of explainTransaction: the id is the hash of the text given; a
\* property of null cannot be read
ExplainParsed(txHex, transaction) ==
    IF transaction = JsonNull
    THEN ExplThrew("TypeError")
    ELSE ExplReturned(ExplainTransaction([txJSON |-> transaction, text |-> txHex]))

NoExplanation == [done |-> FALSE]

ExplInit ==
    /\ explPc = "CALL"
    /\ explIn \in ExplainInputs
    /\ explTx = NoExplanation
    /\ explOut = NoExplanation

ExplIdle ==
    /\ explPc = "idle"
    /\ explIn = [form |-> "other", value |-> ""]
    /\ explTx = NoExplanation
    /\ explOut = NoExplanation

\* the text is decoded, or parsed as JSON
ExplParses ==
    /\ explPc = "CALL"
    /\ ~ParseTransaction(explIn).threw
    /\ explTx' = [done |-> TRUE, transaction |-> ParseTransaction(explIn).value]
    /\ explPc' = "PARSED"
    /\ UNCHANGED <<explIn, explOut>>
    /\ UNCHANGED <<addrVars, recVars, issVars, chanVars, bootVars, sessVars, cacheVars, genVars, ledgVars, authVars>>

\* the text is neither
ExplParseThrows ==
    /\ explPc = "CALL"
    /\ ParseTransaction(explIn).threw
    /\ explOut' = [done |-> TRUE, result |-> ParseTransaction(explIn)]
    /\ explPc' = "DONE"
    /\ UNCHANGED <<explIn, explTx>>
    /\ UNCHANGED <<addrVars, recVars, issVars, chanVars, bootVars, sessVars, cacheVars, genVars, ledgVars, authVars>>

\* the explanation is built from the transaction
ExplExplains ==
    /\ explPc = "PARSED"
    /\ explOut' = [done |-> TRUE,
                   result |-> ExplainParsed(explIn, explTx.transaction)]
    /\ explPc' = "DONE"
    /\ UNCHANGED <<explIn, explTx>>
    /\ UNCHANGED <<addrVars, recVars, issVars, chanVars, bootVars, sessVars, cacheVars, genVars, ledgVars, authVars>>

ExplNext ==
    \/ ExplParses
    \/ ExplParseThrows
    \/ ExplExplains

-----------------------------------------------------------------------------
(* Xrp.prototype.recover: its three requests, made with the patched request
   of the BitGo object (self.bitgo.post), under the session of that object *)

\* stands for the url getRippledUrl gives ('https://s1.ripple.com:51234')
RippledUrlText == <<"h", ":", "/", "/", "r">>

\* self.bitgo.post(rippledUrl).send({ method: ... })
LedgerRequest(method) ==
    NewRequest([ url |-> RippledUrlText, query |-> None,
                 data |-> [kind |-> "object", text |-> <<method>>],
                 forceV1Auth |-> FALSE ])

\* what the ledger node answers: it holds no session token, so its answers
\* carry no Timestamp header and no HMAC header, or an HMAC made without
\* the token
LedgerResponses(method) ==
    { [ present |-> TRUE, statusCode |-> 200, text |-> <<method>>,
        timestamp |-> None, hmac |-> h ] :
      h \in { Unset(ForgedHmac), SetTo(ForgedHmac) } }

NewLedgerCall(method) ==
    [ state |-> "created", req |-> LedgerRequest(method), wire |-> NoWire,
      verdict |-> NoVerdict ]

LedgInit ==
    /\ token \in OptionalOf(Tokens)
    /\ req = NoRequest
    /\ wire = NoWire
    /\ served = NoServed
    /\ response = NoResponse
    /\ verdict = NoVerdict
    /\ ledgCalls = [m \in RippledCalls |-> NewLedgerCall(m)]
    /\ ledgOut = [state |-> "pending", status |-> 0]

LedgIdle ==
    /\ ledgCalls = << >>
    /\ ledgOut = [state |-> "idle", status |-> 0]

\* the array of the three requests is resolved: then is called on each, which
\* runs req.end (line 370)
LedgerThen(m) ==
    /\ ledgCalls[m].state = "created"
    /\ ledgCalls' = [ledgCalls EXCEPT ![m] =
          [ state   |-> "sent",
            req     |-> EndRequest(ledgCalls[m].req, token, 1),
            wire    |-> WireOf(EndRequest(ledgCalls[m].req, token, 1), token),
            verdict |-> NoVerdict ]]
    /\ UNCHANGED ledgOut
    /\ UNCHANGED <<addrVars, recVars, issVars, chanVars, bootVars, sessVars, cacheVars, genVars, explVars, authVars>>

\* the ledger node answers: req.verifyResponse runs on the answer (line 371)
LedgerReplies(m) ==
    /\ ledgCalls[m].state = "sent"
    /\ \E resp \in LedgerResponses(m) :
          ledgCalls' = [ledgCalls EXCEPT ![m] =
              [ @ EXCEPT !.verdict = VerifyResponse(ledgCalls[m].req, token, resp),
                         !.state = VerifyResponse(ledgCalls[m].req, token, resp).outcome ]]
    /\ UNCHANGED ledgOut
    /\ UNCHANGED <<addrVars, recVars, issVars, chanVars, bootVars, sessVars, cacheVars, genVars, explVars, authVars>>

\* the request fails on the network
LedgerNetworkError(m) ==
    /\ ledgCalls[m].state = "sent"
    /\ ledgCalls' = [ledgCalls EXCEPT ![m].state = "failed"]
    /\ UNCHANGED ledgOut
    /\ UNCHANGED <<addrVars, recVars, issVars, chanVars, bootVars, sessVars, cacheVars, genVars, explVars, authVars>>

\* the three answers are there: the handler given to spread runs (line 297)
LedgerSpread ==
    /\ ledgOut.state = "pending"
    /\ \A m \in RippledCalls : ledgCalls[m].state = "returned"
    /\ ledgOut' = [state |-> "spread", status |-> 0]
    /\ UNCHANGED ledgCalls
    /\ UNCHANGED <<addrVars, recVars, issVars, chanVars, bootVars, sessVars, cacheVars, genVars, explVars, authVars>>

\* one of the three promises is rejected: so is the promise of recover
LedgerRejected ==
    /\ ledgOut.state = "pending"
    /\ \E m \in RippledCalls :
          /\ ledgCalls[m].state \in { "thrown", "failed" }
          /\ ledgOut' = [state |-> "rejected", status |-> ledgCalls[m].verdict.status]
    /\ UNCHANGED ledgCalls
    /\ UNCHANGED <<addrVars, recVars, issVars, chanVars, bootVars, sessVars, cacheVars, genVars, explVars, authVars>>

CallLedgerThen == \E m \in RippledCalls : LedgerThen(m)
CallLedgerReplies == \E m \in RippledCalls : LedgerReplies(m)
CallLedgerNetworkError == \E m \in RippledCalls : LedgerNetworkError(m)

LedgNext ==
    \/ CallLedgerThen
    \/ CallLedgerReplies
    \/ CallLedgerNetworkError
    \/ LedgerSpread
    \/ LedgerRejected

-----------------------------------------------------------------------------
(* BitGo.prototype.authenticate: the call and the handler of the login
   response *)

\* the number of calls of authenticate made one after the other
MaxLogins == 2

\* this.url('/user/login')
LoginUrl == <<"h", ":", "/", "/", "s", "/", "u">>

\* params of authenticate, as far as they change what it does
AuthenticateParams == [ extensible : BOOLEAN, forceV1Auth : BOOLEAN ]

\* the response texts of a login and the bodies they parse to: the answer of
\* the server, the same answer with another user put in by the network, an
\* answer without encryptedECDHXprv, answers whose encryptedECDHXprv or
\* encryptedToken is no ciphertext, and the answer to a login that was
\* forced to the old method
LoginIssuedText   == <<"a">>
LoginAlteredText  == <<"b">>
LoginNoXprvText   == <<"n">>
LoginBadXprvText  == <<"x">>
LoginBadTokenText == <<"t">>
LoginV1Text       == <<"v">>

LoginBody(userOfBody, accessToken, encryptedXprv, encryptedToken) ==
    [ user |-> Some(userOfBody), access_token |-> accessToken,
      derivationPath |-> Some("m/1"),
      encryptedECDHXprv |-> encryptedXprv, encryptedToken |-> encryptedToken ]

LoginBodyOf(text) ==
    CASE text = LoginIssuedText ->
           LoginBody("userOfLogin", None, Some(Sealed("password", "xprvClient")),
                     Some(Sealed(SessionSecret, "v2xIssuedToken")))
      [] text = LoginAlteredText ->
           LoginBody("userOfNetwork", None, Some(Sealed("password", "xprvClient")),
                     Some(Sealed(SessionSecret, "v2xIssuedToken")))
      [] text = LoginNoXprvText ->
           LoginBody("userOfLogin", None, None,
                     Some(Sealed(SessionSecret, "v2xIssuedToken")))
      [] text = LoginBadXprvText ->
           LoginBody("userOfLogin", None, Some(CorruptCiphertext),
                     Some(Sealed(SessionSecret, "v2xIssuedToken")))
      [] text = LoginBadTokenText ->
           LoginBody("userOfLogin", None, Some(Sealed("password", "xprvClient")),
                     Some(CorruptCiphertext))
      [] OTHER ->
           LoginBody("userOfLogin", Some("legacy40Token"), None, None)

\* the texts a login can be answered with: the server's answer to the
\* request, or one of the other texts put in its place on the way
LoginTexts(forceV1Auth) ==
    IF forceV1Auth THEN { LoginV1Text }
    ELSE { LoginIssuedText, LoginAlteredText, LoginNoXprvText, LoginBadXprvText,
           LoginBadTokenText }

\* the response to a login: the server signs its own answer with the token it
\* issues; the network can put another text under the same headers
LoginResponse(statusCode, text) ==
    [ present    |-> TRUE,
      statusCode |-> statusCode,
      text       |-> text,
      timestamp  |-> Some(<<"1">>),
      hmac       |-> SetTo(Hmac("v2xIssuedToken",
                         ResponseSignatureSubject(Some(<<"1">>), <<"/", "u">>,
                                                  statusCode, LoginIssuedText))) ]

\* the fields of the session
SessionFields ==
    [ user |-> user, token |-> token, refreshToken |-> refreshToken,
      ecdhXprv |-> sessEcdhXprv, extensionKey |-> extensionKey ]

NoAuthCall ==
    [ pc |-> "none", n |-> 0, params |-> [extensible |-> FALSE, forceV1Auth |-> FALSE],
      before |-> <<>>, atResponse |-> <<>>, requests |-> 0, responded |-> FALSE,
      req |-> NoRequest, error |-> "", previousError |-> "" ]

\* the key bitcoin.makeRandomKey() gives in the n-th call
RandomKey(n) == <<"extensionKey", n>>

\* the handler authenticate puts on its request (lines 769-796), on a session
\* s with the request r and the response resp: the session it leaves, and
\* what it throws
AuthenticateHandler(r, s, resp) ==
    With(LoginBodyOf(resp.text), LAMBDA body :
    With([s EXCEPT !.user = body.user], LAMBDA s1 :
        IF body.access_token.some
        THEN [ session |-> [s1 EXCEPT !.token = body.access_token],
               threw |-> FALSE, error |-> "" ]
        ELSE IF ~body.encryptedECDHXprv.some
        THEN [ session |-> s1, threw |-> TRUE,
               error |-> "Keychain needs encryptedXprv property" ]
        ELSE With(HandleTokenIssuance(s.ecdhXprv,
                      [ derivationPath    |-> body.derivationPath,
                        encryptedECDHXprv |-> body.encryptedECDHXprv,
                        encryptedToken    |-> body.encryptedToken ],
                      Some("password")), LAMBDA issued :
             IF issued.threw
             THEN [ session |-> s1, threw |-> TRUE,
                    error |-> IF issued.errorCode # "" THEN issued.errorCode
                              ELSE issued.message ]
             ELSE With([s1 EXCEPT !.token = Some(issued.response.token),
                                  !.ecdhXprv = issued.response.ecdhXprv],
                       LAMBDA s2 :
                  IF VerifyResponse(r, s2.token, resp).outcome = "thrown"
                  THEN [ session |-> s2, threw |-> TRUE,
                         error |-> "invalid response HMAC" ]
                  ELSE [ session |-> s2, threw |-> FALSE, error |-> "" ]))))

\* the fields of a session at the start: as in SessionsAtStart, with or
\* without a cached ECDH key and an extension key
AuthInit ==
    /\ \E s \in SessionsAtStart :
          /\ token = s.token
          /\ user = s.user
          /\ refreshToken = s.refreshToken
    /\ sessEcdhXprv \in OptionalOf({ "xprvClient" })
    /\ extensionKey \in OptionalOf({ RandomKey(0) })
    /\ authCall = NoAuthCall
    /\ call = NoCall
    /\ sent = << >>
    /\ req = NoRequest
    /\ wire = NoWire
    /\ served = NoServed
    /\ response = NoResponse
    /\ verdict = NoVerdict

AuthIdle ==
    /\ extensionKey = None
    /\ authCall = NoAuthCall

\* authenticate(params), up to its return: the extension key is made when
\* asked for (lines 751-755), then the call is rejected if a token is held
\* (lines 758-760), else the login request is made and sent
Authenticate(params) ==
    /\ authCall.pc # "sent"
    /\ authCall.n < MaxLogins
    /\ extensionKey' = IF params.extensible THEN Some(RandomKey(authCall.n + 1))
                       ELSE extensionKey
    /\ authCall' =
         IF token.some
         THEN [ NoAuthCall EXCEPT !.pc = "rejected", !.n = authCall.n + 1,
                                  !.params = params, !.before = SessionFields,
                                  !.error = "already logged in",
                                  !.previousError = authCall.error ]
         ELSE [ NoAuthCall EXCEPT !.pc = "sent", !.n = authCall.n + 1,
                                  !.params = params, !.before = SessionFields,
                                  !.requests = 1,
                                  !.req = EndRequest(
                                      NewRequest([ url |-> LoginUrl, query |-> None,
                                                   data |-> [kind |-> "object",
                                                             text |-> <<"{", "}">>],
                                                   forceV1Auth |-> params.forceV1Auth ]),
                                      token, 1),
                                  !.previousError = authCall.error ]
    /\ UNCHANGED <<token, user, refreshToken, sessEcdhXprv>>
    /\ UNCHANGED <<call, sent, req, wire, served, response, verdict>>
    /\ UNCHANGED <<addrVars, recVars, issVars, bootVars, cacheVars, genVars, explVars, ledgVars>>

\* the login is answered with status 200: req.then verifies with the token
\* held then, and the handler of authenticate runs
AuthResponds ==
    /\ authCall.pc = "sent"
    /\ \E text \in LoginTexts(authCall.params.forceV1Auth) :
       With(LoginResponse(200, text), LAMBDA resp :
         IF VerifyResponse(authCall.req, token, resp).outcome = "thrown"
         THEN /\ authCall' = [authCall EXCEPT !.pc = "rejected", !.responded = TRUE,
                                              !.atResponse = SessionFields,
                                              !.error = "invalid response HMAC"]
              /\ UNCHANGED <<token, user, sessEcdhXprv>>
         ELSE With(AuthenticateHandler(authCall.req, SessionFields, resp), LAMBDA h :
              /\ user' = h.session.user
              /\ token' = h.session.token
              /\ sessEcdhXprv' = h.session.ecdhXprv
              /\ authCall' = [authCall EXCEPT
                                !.pc = IF h.threw THEN "rejected" ELSE "resolved",
                                !.responded = TRUE,
                                !.atResponse = SessionFields,
                                !.error = h.error]))
    /\ UNCHANGED <<refreshToken, extensionKey>>
    /\ UNCHANGED <<call, sent, req, wire, served, response, verdict>>
    /\ UNCHANGED <<addrVars, recVars, issVars, bootVars, cacheVars, genVars, explVars, ledgVars>>

\* the login is answered with an error status, or not at all: the handler
\* is skipped and the call is rejected
AuthFails ==
    /\ authCall.pc = "sent"
    /\ authCall' = [authCall EXCEPT !.pc = "rejected", !.error = "request failed"]
    /\ UNCHANGED <<token, user, refreshToken, sessEcdhXprv, extensionKey>>
    /\ UNCHANGED <<call, sent, req, wire, served, response, verdict>>
    /\ UNCHANGED <<addrVars, recVars, issVars, bootVars, cacheVars, genVars, explVars, ledgVars>>

CallAuthenticate == \E params \in AuthenticateParams : Authenticate(params)

AuthNext ==
    \/ CallAuthenticate
    \/ AuthResponds
    \/ AuthFails

-----------------------------------------------------------------------------
(* The specifications *)

AddrNext == CallIsValidAddress

InitAddress == AddrInit /\ RecIdle /\ IssIdle /\ ChanIdle /\ BootIdle /\ SessIdle /\ CacheIdle /\ GenIdle /\ ExplIdle /\ LedgIdle /\ AuthIdle
SpecAddress == InitAddress /\ [][AddrNext]_vars

InitRecover == RecInit /\ AddrIdle /\ IssIdle /\ ChanIdle /\ BootIdle /\ SessIdle /\ CacheIdle /\ GenIdle /\ ExplIdle /\ LedgIdle /\ AuthIdle
SpecRecover == InitRecover /\ [][RecNext]_vars

InitIssuance == IssInit /\ AddrIdle /\ RecIdle /\ ChanIdle /\ BootIdle /\ SessIdle /\ CacheIdle /\ GenIdle /\ ExplIdle /\ LedgIdle /\ AuthIdle
SpecIssuance == InitIssuance /\ [][IssNext]_vars

InitChannel == ChanInit /\ AddrIdle /\ RecIdle /\ IssIdle /\ BootIdle /\ SessIdle /\ CacheIdle /\ GenIdle /\ ExplIdle /\ LedgIdle /\ AuthIdle
SpecChannel == InitChannel /\ [][ChanNext]_vars

InitBootstrap == BootInit /\ AddrIdle /\ RecIdle /\ IssIdle /\ ChanIdle /\ SessIdle /\ CacheIdle /\ GenIdle /\ ExplIdle /\ LedgIdle /\ AuthIdle
SpecBootstrap == InitBootstrap /\ [][BootNext]_vars

InitSession == SessInit /\ AddrIdle /\ RecIdle /\ IssIdle /\ BootIdle /\ CacheIdle /\ GenIdle /\ ExplIdle /\ LedgIdle /\ AuthIdle
SpecSession == InitSession /\ [][SessNext]_vars

InitConstants == CacheInit /\ AddrIdle /\ RecIdle /\ IssIdle /\ ChanIdle /\ BootIdle /\ SessIdle /\ GenIdle /\ ExplIdle /\ LedgIdle /\ AuthIdle
SpecConstants == InitConstants /\ [][CacheNext]_vars

InitGenerateWallet == GenInit /\ AddrIdle /\ RecIdle /\ IssIdle /\ ChanIdle /\ BootIdle /\ SessIdle /\ CacheIdle /\ ExplIdle /\ LedgIdle /\ AuthIdle
SpecGenerateWallet == InitGenerateWallet /\ [][GenNext]_vars

InitExplain == ExplInit /\ AddrIdle /\ RecIdle /\ IssIdle /\ ChanIdle /\ BootIdle /\ SessIdle /\ CacheIdle /\ GenIdle /\ LedgIdle /\ AuthIdle
SpecExplain == InitExplain /\ [][ExplNext]_vars

InitLedgerCalls == LedgInit /\ AddrIdle /\ RecIdle /\ IssIdle /\ BootIdle /\ SessIdle /\ CacheIdle /\ GenIdle /\ ExplIdle /\ AuthIdle
SpecLedgerCalls == InitLedgerCalls /\ [][LedgNext]_vars

InitAuthenticate == AuthInit /\ AddrIdle /\ RecIdle /\ IssIdle /\ BootIdle /\ CacheIdle /\ GenIdle /\ ExplIdle /\ LedgIdle
SpecAuthenticate == InitAuthenticate /\ [][AuthNext]_vars

-----------------------------------------------------------------------------
(* Claims about Xrp.prototype.isValidAddress *)

\* a tag in [0, 2^32-1] written in canonical decimal: digits only, no sign,
\* no leading zero, value at most 4294967295
CanonicalTagText(d) ==
    /\ d # <<>>
    /\ \A i \in 1..Len(d) : IsDigitChar(d[i])
    /\ (Len(d) = 1 \/ d[1] # "0")
    /\ ~MagLess(UINT32_MAX, [i \in 1..Len(d) |-> DigitVal(d[i])])

\* the address strings the specification calls valid
CanonicalAddress(s) ==
    \E b \in ValidAddresses :
        \/ s = b
        \/ /\ Len(s) > Len(b) + Len(DtPrefix)
           /\ SubSeq(s, 1, Len(b) + Len(DtPrefix)) = b \o DtPrefix
           /\ CanonicalTagText(SubSeq(s, Len(b) + Len(DtPrefix) + 1, Len(s)))

\* C9: isValidAddress(s) is true exactly when the base of s is a valid ledger
\* address and s either has no query at all or is base + "?dt=" + n with n an
\* integer of [0, 2^32-1] in canonical decimal; so it is false for a tag above
\* 0xFFFFFFFF, a negative tag, a non-numeric dt, leading zeros, extra or
\* repeated parameters and an empty query.
C9_ValidIffCanonical ==
    addrPc = "returned" => (addrResult.ret <=> CanonicalAddress(address))

C9_Witness ==
    /\ addrPc = "returned"
    /\ address = <<"r", "A", "?", "d", "t", "=", "0", "7">>
    /\ ~addrResult.ret

\* base + "?dt=" + tag
Serialize(base, mag) == base \o <<"?", "d", "t", "=">> \o DigitText(mag)

InRangeMagnitudes == { m \in TagMagnitudes : ~MagLess(UINT32_MAX, m) }

\* C10: for a valid base and a tag of [0, 2^32-1], 0 and 2^32-1 included, the
\* serialization base + "?dt=" + tag is accepted and parses to exactly
\* (base, tag); and any accepted tagged string is the serialization of the
\* pair parsed from it, so a pair has one accepted string form.
C10_RoundTrip ==
    addrPc = "returned" =>
        /\ \A b \in ValidAddresses, m \in InRangeMagnitudes :
              address = Serialize(b, m) =>
                  /\ addrResult.ret
                  /\ addrResult.tagged
                  /\ addrResult.destinationAddress = Some(b)
                  /\ addrResult.parsedTag = Num(FALSE, m)
        /\ (addrResult.ret /\ addrResult.tagged) =>
              /\ ~addrResult.parsedTag.nan
              /\ ~addrResult.parsedTag.neg
              /\ ~MagLess(UINT32_MAX, addrResult.parsedTag.mag)
              /\ address = Serialize(addrResult.destinationAddress.v,
                                     addrResult.parsedTag.mag)

C10_Witness ==
    /\ addrPc = "returned"
    /\ address = Serialize(<<"r", "B">>, UINT32_MAX)
    /\ addrResult.ret
    /\ addrResult.parsedTag = Num(FALSE, UINT32_MAX)

-----------------------------------------------------------------------------
(* Claims about Xrp.prototype.recover *)

AccountInfoFetched == "account_info" \in ledger.replied
ValidationRan == \E i \in 1..Len(recTrace) : recTrace[i] = "VALIDATE_POLICY"

\* how often an address occurs among the entries of a signer list
Incidence(entries, a) ==
    Cardinality({ i \in 1..Len(entries) : entries[i].Account = a })

\* the signer policy the client expects, as the specification words it
ExpectedSignerPolicy ==
    LET lists == ledger.account_data.signer_lists IN
    /\ Len(lists) = 1
    /\ lists[1].SignerQuorum = 2
    /\ Len(lists[1].SignerEntries) = 3
    /\ \A i \in 1..Len(lists[1].SignerEntries) :
          lists[1].SignerEntries[i].SignerWeight = 1
    /\ \A a \in SignerAccounts : Incidence(lists[1].SignerEntries, a) <= 1
    /\ Incidence(lists[1].SignerEntries, DeriveAddress(recIn.userKey)) = 1
    /\ Incidence(lists[1].SignerEntries, DeriveAddress(recIn.backupKey)) = 1

NothingReturned == ~recOut.resolved /\ recTx = NoTx /\ recSigs = <<>>

\* C2: recover returns a transaction only if there is exactly one signer list,
\* with quorum 2 and exactly 3 entries, all of weight 1, no address twice, and
\* the user-derived and the backup-derived address once each; when one of
\* these fails the call is rejected with an error and returns no transaction.
C2_SignerPolicyEnforced ==
    /\ recOut.resolved => ExpectedSignerPolicy
    /\ (ValidationRan /\ ~ExpectedSignerPolicy) =>
          /\ recPc = "REJECTED"
          /\ recErr # ""
          /\ NothingReturned

C2_Witness ==
    /\ recPc = "REJECTED"
    /\ recErr = "duplicate signer address"
    /\ Len(ledger.account_data.signer_lists) = 1
    /\ ledger.account_data.signer_lists[1].SignerQuorum = 2

FlagIsSet(flags, bit) == (flags \div bit) % 2 = 1

\* the account flags the client expects
ExpectedAccountFlags ==
    /\ ~FlagIsSet(ledger.account_data.Flags, 65536)
    /\ FlagIsSet(ledger.account_data.Flags, 1048576)
    /\ FlagIsSet(ledger.account_data.Flags, 131072)

\* C3: recover returns a transaction only if the flags have the custom
\* regular key bit (65536) clear and the master-key-disabled bit (1048576) and
\* the require-destination-tag bit (131072) set; for any other flags value
\* the call is rejected with an error and returns no transaction.
C3_AccountFlagsEnforced ==
    /\ recOut.resolved => ExpectedAccountFlags
    /\ (ValidationRan /\ ~ExpectedAccountFlags) =>
          /\ recPc = "REJECTED"
          /\ recErr # ""
          /\ NothingReturned

C3_Witness ==
    /\ recPc = "REJECTED"
    /\ recErr = "the master key has not been deactivated"
    /\ ExpectedSignerPolicy

LinearStages ==
    <<"FETCH", "VALIDATE_POLICY", "COMPUTE_BALANCE", "BUILD_TX", "SIGN", "COMBINE">>

\* the stage that may follow each stage, besides REJECTED
NextStage(pc) ==
    CASE pc = "FETCH" -> "VALIDATE_POLICY"
      [] pc = "VALIDATE_POLICY" -> "COMPUTE_BALANCE"
      [] pc = "COMPUTE_BALANCE" -> "BUILD_TX"
      [] pc = "BUILD_TX" -> "SIGN"
      [] pc = "SIGN" -> "COMBINE"
      [] pc = "COMBINE" -> "DONE"
      [] OTHER -> pc

C4_StateOk ==
    /\ Len(recTrace) <= Len(LinearStages)
    /\ recTrace = SubSeq(LinearStages, 1, Len(recTrace))
    /\ (recTx # NoTx \/ recSigs # <<>> \/ recOut.resolved) =>
          /\ ValidationRan
          /\ recErr = ""
          /\ ExpectedSignerPolicy
          /\ ExpectedAccountFlags
    /\ recPc = "REJECTED" => (recErr # "" /\ NothingReturned)
    /\ recErr # "" => recPc = "REJECTED"
    /\ recOut.resolved <=> recPc = "DONE"

C4_StepOk ==
    /\ recPc \in {"REJECTED", "DONE"} => UNCHANGED recVars
    /\ recPc' # recPc => recPc' \in {NextStage(recPc), "REJECTED"}

\* C4: a recovery run is linear, FETCH -> VALIDATE_POLICY -> COMPUTE_BALANCE
\* -> BUILD_TX -> SIGN -> COMBINE -> DONE, with REJECTED terminal: nothing is
\* built or signed before the policy validation has passed, and once a check
\* fails no later stage runs and no transaction, signature or explanation is
\* returned.
C4_LinearFailClosed == [](C4_StateOk) /\ [][C4_StepOk]_vars

C4_Witness ==
    /\ recPc = "DONE"
    /\ recTrace = LinearStages
    /\ recOut.resolved

-----------------------------------------------------------------------------
(* Claims about BitGo.prototype.handleTokenIssuance *)

IssuanceCalled == issPc \in { "returned", "thrown" }

\* the call gets as far as decrypting encryptedECDHXprv with the password, and
\* that decryption fails: wrong password or corrupt ciphertext
XprvDecryptionFails ==
    /\ issIn.responseBody.derivationPath.some
    /\ ~issIn.cachedXprv.some
    /\ issIn.password.some
    /\ issIn.responseBody.encryptedECDHXprv.some
    /\ \/ issIn.responseBody.encryptedECDHXprv.v.kind # "sealed"
       \/ issIn.responseBody.encryptedECDHXprv.v.password # issIn.password.v

\* the private key the call works with, when it has one that is a key
IssuanceXprv ==
    IF issIn.cachedXprv.some THEN issIn.cachedXprv.v
    ELSE issIn.responseBody.encryptedECDHXprv.v.plaintext

HasIssuanceXprv ==
    /\ issIn.responseBody.derivationPath.some
    /\ \/ issIn.cachedXprv.some
       \/ /\ issIn.password.some
          /\ issIn.responseBody.encryptedECDHXprv.some
          /\ ~XprvDecryptionFails
    /\ IssuanceXprv \in ClientXprvs

\* the call gets as far as decrypting encryptedToken with the ECDH secret, and
\* that decryption fails: no token, a corrupt one, or one sealed under the
\* secret of other keys
TokenDecryptionFails ==
    /\ HasIssuanceXprv
    /\ \/ ~issIn.responseBody.encryptedToken.some
       \/ issIn.responseBody.encryptedToken.v.kind # "sealed"
       \/ issIn.responseBody.encryptedToken.v.password #
              PointEncodedHex(EcdhPoint(ServerXpub,
                                        issIn.responseBody.derivationPath.v,
                                        IssuanceXprv,
                                        issIn.responseBody.derivationPath.v))

\* C8: in handleTokenIssuance a failure to decrypt encryptedECDHXprv with the
\* password throws an error tagged ecdh_xprv_decryption_failure, a failure to
\* decrypt encryptedToken with the ECDH secret throws an error tagged
\* token_decryption_failure, neither tag is used for the other failure, and in
\* both cases the error reaches the caller and no token is returned.
C8_DecryptionFailuresTagged ==
    IssuanceCalled =>
        /\ XprvDecryptionFails =>
              /\ issPc = "thrown"
              /\ issErr.threw
              /\ issErr.errorCode = "ecdh_xprv_decryption_failure"
              /\ issOut = NoIssue
        /\ TokenDecryptionFails =>
              /\ issPc = "thrown"
              /\ issErr.threw
              /\ issErr.errorCode = "token_decryption_failure"
              /\ issOut = NoIssue
        /\ issErr.errorCode = "ecdh_xprv_decryption_failure" => XprvDecryptionFails
        /\ issErr.errorCode = "token_decryption_failure" => TokenDecryptionFails
        /\ issPc = "returned" => (~issErr.threw /\ issOut.token \in IssuedTokens)

C8_Witness ==
    /\ issPc = "thrown"
    /\ issErr.errorCode = "token_decryption_failure"
    /\ issIn.cachedXprv = Some("xprvStale")
    /\ issIn.responseBody.encryptedToken.some
    /\ issIn.responseBody.encryptedToken.v.kind = "sealed"

-----------------------------------------------------------------------------
(* Claims about req.end and req.verifyResponse *)

\* the URL without scheme and host
StripOrigin(u) ==
    LET start == CHOOSE k \in 1..Len(u) :
                    /\ u[k] = "/"
                    /\ k > IndexOf(u, ":") + 2
                    /\ \A j \in (IndexOf(u, ":") + 3)..(k - 1) : u[j] # "/"
    IN  SubSeq(u, start, Len(u))

\* the path and query string of the request made: the path and query of the
\* URL given, and the query added through req.query()
PathPlusQuery(args) ==
    LET given == StripOrigin(args.url)
    IN  IF ~args.query.some THEN given
        ELSE IF IndexOf(given, "?") # 0
        THEN given \o <<"&">> \o args.query.v
        ELSE given \o <<"?">> \o args.query.v

\* the token is of the format that is not sent as it is
NewFormat(t) == TokenLength(t) = 67 \/ StartsWithV2x(t)

\* the request went out in HMAC-authenticated mode with a token
SentV2WithToken ==
    /\ wire.sent
    /\ ~req.args.forceV1Auth
    /\ wire.token.some
    /\ NewFormat(wire.token.v)

\* the request went out in legacy mode
SentLegacy ==
    /\ wire.sent
    /\ \/ req.args.forceV1Auth
       \/ wire.token.some /\ ~NewFormat(wire.token.v)

\* C5: a request sent in HMAC-authenticated mode with a session token has the
\* Authorization header 'Bearer ' + hex SHA-256 of the token, and the token
\* itself is in none of its headers.
C5_BearerIsTokenHash ==
    SentV2WithToken =>
        /\ wire.headers.Authorization =
              SetTo([scheme |-> "Bearer",
                     credential |-> [kind |-> "sha256", of |-> wire.token.v]])
        /\ wire.headers.Authorization.v.credential # RawText(wire.token.v)
        /\ wire.headers.BitGoAuthVersion.v # wire.token.v
        /\ wire.headers.IfModifiedSince.v # wire.token.v
        /\ wire.headers.UserAgent.v # wire.token.v

C5_Witness ==
    /\ SentV2WithToken
    /\ wire.token = Some("plain67Token")
    /\ wire.headers.Authorization.v.credential.kind = "sha256"

\* C6: a request sent in HMAC-authenticated mode with token T has the HMAC
\* header HMAC-SHA256(T, timestamp | path plus query string | serialized
\* body), its Auth-Timestamp header is the timestamp of that message, and the
\* path has no scheme or host and includes the query added with req.query().
C6_RequestHmac ==
    SentV2WithToken =>
        /\ wire.headers.AuthTimestamp.set
        /\ wire.headers.AuthTimestamp.v \in Timestamps
        /\ wire.headers.HMAC =
              SetTo([key |-> wire.token.v,
                     message |-> IntText(wire.headers.AuthTimestamp.v)
                                 \o <<"|">> \o PathPlusQuery(req.args)
                                 \o <<"|">> \o req.args.data.text])
        /\ wire.url = SubSeq(req.args.url, 1,
                             Len(req.args.url) - Len(StripOrigin(req.args.url)))
                      \o PathPlusQuery(req.args)

C6_Witness ==
    /\ SentV2WithToken
    /\ req.args.query.some
    /\ IndexOf(req.args.url, "?") # 0
    /\ req.args.data.kind = "object"
    /\ wire.headers.HMAC.set

\* C7: a request sent in legacy mode (old-format token, or forceV1Auth) is
\* marked not v2-authenticated, has the token itself as bearer and none of the
\* headers BitGo-Auth-Version, Auth-Timestamp and HMAC, and verifyResponse
\* returns its response without comparing an HMAC; a request that has the HMAC
\* headers is marked v2-authenticated.
C7_LegacyMode ==
    /\ SentLegacy =>
          /\ ~req.isV2Authenticated
          /\ wire.headers.Authorization.set
          /\ wire.headers.Authorization.v.scheme = "Bearer"
          /\ wire.headers.Authorization.v.credential =
                (IF wire.token.some THEN [kind |-> "raw", of |-> wire.token.v]
                 ELSE NullText)
          /\ ~wire.headers.BitGoAuthVersion.set
          /\ ~wire.headers.AuthTimestamp.set
          /\ ~wire.headers.HMAC.set
          /\ verdict.outcome # "none" =>
                (verdict.outcome = "returned" /\ ~verdict.compared)
    /\ (wire.sent /\ (wire.headers.HMAC.set \/ wire.headers.AuthTimestamp.set))
          => req.isV2Authenticated

C7_Witness ==
    /\ SentLegacy
    /\ req.args.forceV1Auth
    /\ wire.token = Some("v2xTokenA")
    /\ token = wire.token
    /\ response.hmac = SetTo(ForgedHmac)
    /\ verdict.outcome = "returned"

\* the request went out signed with token T and the session still holds T
\* when the response is verified
VerifiedWithSendToken ==
    /\ SentV2WithToken
    /\ token = wire.token
    /\ verdict.outcome # "none"

\* timestamp-header | request path including query | status code | body text
\* of the response received
ReceivedMessage ==
    response.timestamp.v \o <<"|">> \o PathPlusQuery(req.args)
        \o <<"|">> \o IntText(response.statusCode) \o <<"|">> \o response.text

\* the message the server signed
ServedMessage ==
    served.response.timestamp.v \o <<"|">> \o served.signedPath
        \o <<"|">> \o IntText(served.response.statusCode)
        \o <<"|">> \o served.response.text

HmacMatches ==
    /\ response.hmac.set
    /\ response.hmac.v = [key |-> token.v, message |-> ReceivedMessage]

ReturnsIffHmacMatches ==
    /\ verdict.outcome = "returned" <=> HmacMatches
    /\ verdict.outcome # "returned" =>
          (verdict.outcome = "thrown" /\ verdict.status = 511)
    /\ verdict.compared

\* what holds of verifyResponse: it returns exactly when the hmac header is
\* the HMAC of the '|'-joined message, and a change that alters the hmac
\* header or the joined text makes it throw
ReturnsIffJoinedTextMatches ==
    VerifiedWithSendToken =>
        /\ ReturnsIffHmacMatches
        /\ (response.hmac # served.response.hmac \/ ReceivedMessage # ServedMessage)
              => verdict.outcome = "thrown"

\* a response whose timestamp, status and body were all rewritten, with the
\* hmac header of the server kept, has been returned to the caller
C1_Witness ==
    /\ VerifiedWithSendToken
    /\ verdict.outcome = "returned"
    /\ verdict.compared
    /\ response.hmac = served.response.hmac
    /\ response.statusCode # served.response.statusCode
    /\ response.text # served.response.text
    /\ served.signedPath = PathPlusQuery(req.args)

\* C1: for a request sent in HMAC-authenticated mode while the session holds
\* token T, verifyResponse returns the response if and only if its hmac header
\* is HMAC-SHA256(T, timestamp-header | request path including query | status
\* code | body text); for every other response, that is after any change to
\* body, status, timestamp, path or hmac header, it throws the error of status
\* 511 and the response is not returned.
C1_AnyChangeThrows ==
    VerifiedWithSendToken =>
        /\ ReturnsIffHmacMatches
        /\ (response # served.response \/ served.signedPath # PathPlusQuery(req.args))
              => verdict.outcome = "thrown"

-----------------------------------------------------------------------------
(* Claims about Xrp.prototype.supplementGenerateWallet *)

\* the root private key of a call: the one given, else the random one
RootKeyOfCall ==
    IF RootPrivateKeyGiven(bootIn.rootPrivateKey)
    THEN bootIn.rootPrivateKey.hex ELSE bootIn.random

C12_SignerListOfKeychains ==
    bootOut.supplemented =>
        /\ bootOut.initializationTxs.setMultisig.txJSON.SignerQuorum = 2
        /\ bootOut.initializationTxs.setMultisig.txJSON.SignerEntries
              = << [Account |-> AddressOfPub(bootIn.keychains.userKeychain),
                    SignerWeight |-> 1],
                   [Account |-> AddressOfPub(bootIn.keychains.backupKeychain),
                    SignerWeight |-> 1],
                   [Account |-> AddressOfPub(bootIn.keychains.bitgoKeychain),
                    SignerWeight |-> 1] >>

\* a call with three different keychains has returned
C12_Witness ==
    /\ bootOut.supplemented
    /\ bootIn.keychains.userKeychain = "xpubA"
    /\ bootIn.keychains.backupKeychain = "xpubB"
    /\ bootIn.keychains.bitgoKeychain = "xpubBitGo"
    /\ Len(bootOut.initializationTxs.setMultisig.txJSON.SignerEntries) = 3

-----------------------------------------------------------------------------
(* Claims about the amounts and fields of the recovery transaction *)

\* the handler has computed recoverableBalance
BalanceComputed == recPc \in { "BUILD_TX", "SIGN", "COMBINE", "DONE" }

\* a number of XRP with seven decimals, in tenths of a drop
TenthsOfDrop(x) == x.xrp * 10000000 + x.frac

\* recoverableBalance minus the balance, in tenths of a drop
RecoverableLessBalance ==
    (recLocals.recoverableBalance.units - ledger.account_data.Balance) * 10
        + recLocals.recoverableBalance.tenths

\* C13: once computed, the recoverable amount is the balance (in drops) less
\* the base reserve and five incremental reserves, both reserves being
\* numbers of XRP taken times 10^6; with reserves 20 and 5 and a balance of
\* 1000 XRP it is 955 XRP (955,000,000 drops).
C13_RecoverableAmount ==
    BalanceComputed =>
        /\ recLocals.recoverableBalance.tenths \in 0..9
        /\ RecoverableLessBalance
             = 0 - (TenthsOfDrop(ledger.validated_ledger.reserve_base_xrp)
                      + 5 * TenthsOfDrop(ledger.validated_ledger.reserve_inc_xrp))
        /\ (/\ ledger.validated_ledger.reserve_base_xrp = [xrp |-> 20, frac |-> 0]
            /\ ledger.validated_ledger.reserve_inc_xrp = [xrp |-> 5, frac |-> 0]
            /\ ledger.account_data.Balance = 1000 * 1000000)
           => recLocals.recoverableBalance = [units |-> 955 * 1000000, tenths |-> 0]

\* the example of the claim has been computed
C13_Witness ==
    /\ BalanceComputed
    /\ ledger.validated_ledger.reserve_base_xrp = [xrp |-> 20, frac |-> 0]
    /\ ledger.validated_ledger.reserve_inc_xrp = [xrp |-> 5, frac |-> 0]
    /\ ledger.account_data.Balance = 1000 * 1000000
    /\ recLocals.recoverableBalance.units = 955000000

\* the fields of the transaction built, but for Amount and the destination
OtherPaymentFieldsOk ==
    /\ recTx.transaction.TransactionType = "Payment"
    /\ recTx.transaction.Account = recIn.rootAddress
    /\ recTx.transaction.Fee = IntText(3 * ledger.open_ledger_fee)
    /\ recTx.transaction.LastLedgerSequence = ledger.validated_ledger.seq + 100
    /\ recTx.transaction.Sequence = ledger.account_data.Sequence

\* n is the integer nearest to x, the one further from zero when two are
\* equally near
NearestAwayFromZero(n, x) ==
    /\ n \in { x.units, x.units + 1 }
    /\ 10 * (n - x.units) - x.tenths \in -5..5
    /\ x.tenths = 5 => (n = x.units + 1 <=> x.units >= 0)

\* C14 as stated: every transaction built is a Payment from the root address
\* with Amount the recoverable balance cut off to an integer, Fee three times
\* the open ledger fee, LastLedgerSequence the validated ledger index + 100
\* and Sequence the sequence number fetched.
C14_AmountTruncated ==
    recTx.built =>
        /\ OtherPaymentFieldsOk
        /\ recTx.transaction.Amount = IntText(BnTruncated(recLocals.recoverableBalance))

\* C14, amended: as above, with Amount the recoverable balance rounded to the
\* nearest integer, a half rounded away from zero (it is the recoverable
\* balance itself when that is a whole number of drops).
C14_PaymentFields ==
    recTx.built =>
        /\ OtherPaymentFieldsOk
        /\ \E n \in { recLocals.recoverableBalance.units,
                      recLocals.recoverableBalance.units + 1 } :
              /\ NearestAwayFromZero(n, recLocals.recoverableBalance)
              /\ recTx.transaction.Amount = IntText(n)
        /\ recLocals.recoverableBalance.tenths = 0
              => recTx.transaction.Amount = IntText(recLocals.recoverableBalance.units)

\* a transaction has been built from a recoverable balance that is not a
\* whole number of drops
C14_Witness ==
    /\ recTx.built
    /\ recLocals.recoverableBalance.tenths >= 5
    /\ recLocals.recoverableBalance.units > 0
    /\ recTx.transaction.Amount = IntText(recLocals.recoverableBalance.units + 1)

\* parseInt of the dt parameter of the recovery destination
DtParsed ==
    ParseInt(ValuesToString(
        QueryStringGet(UrlParse(recIn.recoveryDestination).query, DT)))

\* every destination tried has the base address rA
BaseAddressOfDestination == [some |-> TRUE, v |-> <<"r", "A">>]

\* what the code does: the tag is attached exactly when parseInt of dt is an
\* integer, negative ones included
TagAttachedIffDtIsInteger ==
    recTx.built =>
        /\ recTx.transaction.Destination = BaseAddressOfDestination
        /\ recTx.transaction.DestinationTag.some <=> IsInteger(DtParsed)
        /\ recTx.transaction.DestinationTag.some
              => recTx.transaction.DestinationTag.v = DtParsed

\* C15: the transaction built has the base address as Destination, and it
\* has a DestinationTag exactly when dt is present and parses as an integer
\* that is not negative; without dt, with a dt that is no number and with a
\* negative dt it has no tag.
C15_TagIffNonNegativeDt ==
    recTx.built =>
        /\ recTx.transaction.Destination = BaseAddressOfDestination
        /\ recTx.transaction.DestinationTag.some
              <=> (IsInteger(DtParsed) /\ (~DtParsed.neg \/ IsZeroMag(DtParsed.mag)))

\* a transaction has been built with a negative tag
C15_Witness ==
    /\ recTx.built
    /\ recIn.recoveryDestination = <<"r", "A", "?", "d", "t", "=", "-", "5">>
    /\ recTx.transaction.DestinationTag.some
    /\ recTx.transaction.DestinationTag.v.neg

-----------------------------------------------------------------------------
(* Claims about the signatures of the recovery transaction *)

\* the signer entry a key makes when it signs as its own address
SignerOf(key) == [Account |-> DeriveAddress(key), signedWith |-> key]

\* C16: the transaction recover returns is multi-signed: it carries exactly
\* two signer entries, the one made with the user key as the user address and
\* the one made with the backup key as the backup address, both partial
\* signatures being over the one transaction body that was built and
\* encoded; it has no single signature and no entry by any other key.
C16_TwoPartialSignatures ==
    recOut.resolved =>
        /\ DOMAIN recOut.txHex = { "txJSON", "Signers" }
        /\ Len(recOut.txHex.Signers) = 2
        /\ { recOut.txHex.Signers[i] : i \in 1..2 }
              = { SignerOf(recIn.userKey), SignerOf(recIn.backupKey) }
        /\ Len(recSigs) = 2
        /\ recSigs[1].Signers = << SignerOf(recIn.userKey) >>
        /\ recSigs[2].Signers = << SignerOf(recIn.backupKey) >>
        /\ recSigs[1].txJSON = recSigs[2].txJSON
        /\ recOut.txHex.txJSON = recSigs[1].txJSON
        /\ recOut.txHex.txJSON \in EncodingsOf(recTx.transaction)

\* a recovery with two different keys has returned its transaction
C16_Witness ==
    /\ recOut.resolved
    /\ recIn.userKey # recIn.backupKey
    /\ Len(recOut.txHex.Signers) = 2
    /\ recOut.txHex.Signers[1].Account # recOut.txHex.Signers[2].Account

\* the two partial signatures combined in the order of the code and in the
\* other order
CombinedUserFirst == Combine(<<recSigs[1], recSigs[2]>>)
CombinedBackupFirst == Combine(<<recSigs[2], recSigs[1]>>)

PaymentFields(transaction) ==
    [ Account            |-> transaction.Account,
      Destination        |-> transaction.Destination,
      DestinationTag     |-> transaction.DestinationTag,
      Amount             |-> transaction.Amount,
      Fee                |-> transaction.Fee,
      Sequence           |-> transaction.Sequence,
      LastLedgerSequence |-> transaction.LastLedgerSequence ]

\* the weight the signer list gives to an account (0 if it has no entry)
RECURSIVE WeightOf(_, _)
WeightOf(account, signerEntries) ==
    IF signerEntries = <<>> THEN 0
    ELSE IF Head(signerEntries).Account = account
    THEN Head(signerEntries).SignerWeight
    ELSE WeightOf(account, Tail(signerEntries))

RECURSIVE TotalWeight(_, _)
TotalWeight(signers, signerEntries) ==
    IF signers = <<>> THEN 0
    ELSE WeightOf(Head(signers).Account, signerEntries)
            + TotalWeight(Tail(signers), signerEntries)

\* the rule of the ledger for a multi-signed transaction: every signer is an
\* entry of the signer list and signs with the key of its account, no signer
\* signs twice, and the weights of the signers reach the quorum
QuorumSatisfied(signedTransaction, signerList) ==
    /\ \A i \in 1..Len(signedTransaction.Signers) :
          /\ WeightOf(signedTransaction.Signers[i].Account,
                      signerList.SignerEntries) > 0
          /\ DeriveAddress(signedTransaction.Signers[i].signedWith)
                = signedTransaction.Signers[i].Account
    /\ \A i \in 1..Len(signedTransaction.Signers) :
          \A j \in 1..Len(signedTransaction.Signers) :
              i # j => signedTransaction.Signers[i].Account
                          # signedTransaction.Signers[j].Account
    /\ TotalWeight(signedTransaction.Signers, signerList.SignerEntries)
          >= signerList.SignerQuorum

\* what combine does: both orders give the same signed transaction, which
\* satisfies the quorum when the two keys have different addresses
CombineOrderIndependent ==
    Len(recSigs) = 2 =>
        /\ CombinedUserFirst = CombinedBackupFirst
        /\ DeriveAddress(recIn.userKey) # DeriveAddress(recIn.backupKey)
              => QuorumSatisfied(CombinedUserFirst,
                                 ledger.account_data.signer_lists[1])

\* C17: once both partial signatures are made, combining them user first and
\* combining them backup first give transactions that both satisfy the
\* quorum of the account's signer list and that have the same Account,
\* Destination, DestinationTag, Amount, Fee, Sequence and LastLedgerSequence.
C17_CombineBothOrders ==
    Len(recSigs) = 2 =>
        /\ QuorumSatisfied(CombinedUserFirst, ledger.account_data.signer_lists[1])
        /\ QuorumSatisfied(CombinedBackupFirst, ledger.account_data.signer_lists[1])
        /\ PaymentFields(CombinedUserFirst.txJSON)
              = PaymentFields(CombinedBackupFirst.txJSON)

\* both signatures have been made with one and the same key
C17_Witness ==
    /\ Len(recSigs) = 2
    /\ recIn.userKey = recIn.backupKey
    /\ CombinedUserFirst.Signers[1] = CombinedUserFirst.Signers[2]

-----------------------------------------------------------------------------
(* Claims about the explanation recover returns *)

\* the text '?dt=<tag>' of a tag that is not negative
TagSuffix(tag) == <<"?", "d", "t", "=">> \o DigitText(tag.v.mag)

-----------------------------------------------------------------------------
(* Claims about what policy validation lets pass, and about the fetch step *)

\* the messages of the errors policy validation throws
PolicyErrors ==
    { "unexpected set of signer lists", "invalid minimum signature count",
      "invalid signer list length", "invalid signer weight",
      "duplicate signer address",
      "unexpected incidence frequency of user signer address",
      "a custom user key has been set",
      "the master key has not been deactivated",
      "the destination flag requirement has not been activated" }

C20_FetchJoinsAll ==
    /\ recPc = "FETCH" => (ledger.replied # RippledCalls /\ NothingReturned)
    /\ ValidationRan => ledger.replied = RippledCalls
    /\ recPc \notin { "FETCH", "REJECTED" } => ledger.replied = RippledCalls
    /\ ledger.replied # RippledCalls =>
          (~ValidationRan /\ NothingReturned /\ recPc \in { "FETCH", "REJECTED" })
    /\ (recPc = "REJECTED" /\ ledger.replied # RippledCalls) =>
          recErr = "request failed"
    /\ recErr = "request failed" =>
          (recPc = "REJECTED" /\ ~ValidationRan /\ NothingReturned)

\* fee and server_info have replied before account_info, which then failed
C20_Witness ==
    /\ recPc = "REJECTED"
    /\ recErr = "request failed"
    /\ ledger.replied = { "fee", "server_info" }
    /\ NothingReturned

-----------------------------------------------------------------------------
(* Claims about the outward effects of recover *)

\* the requests created so far are the three reads of the ledger node
C21_StateOk ==
    /\ Cardinality(recCalls) = 3
    /\ { c.method : c \in recCalls } = { "account_info", "fee", "server_info" }
    /\ \A c \in recCalls :
          c.url = "https://s1.ripple.com:51234" /\ c.url # BitGoUrl
    /\ { c.method : c \in recCalls } \cap { "submit", "submit_multisigned" } = {}
    /\ ledger.replied \subseteq { c.method : c \in recCalls }

\* C21: the requests recover creates are the three reads account_info, fee
\* and server_info, each addressed to the url of the ledger node and none to
\* the custodial server; no step of recover creates another request (nothing
\* is submitted), and the signed transaction is only in what the promise
\* resolves with.
C21_OnlyLedgerReads == C21_StateOk /\ [][recCalls' = recCalls]_vars

\* a recovery has returned its signed transaction having made the three calls
C21_Witness ==
    /\ recOut.resolved
    /\ Len(recOut.txHex.Signers) = 2
    /\ Cardinality(recCalls) = 3
    /\ ledger.replied = { c.method : c \in recCalls }

-----------------------------------------------------------------------------
(* C22: the fee of the three initialization transactions *)

\* the Fee fields of the three signed initialization transactions
InitializationTxFees ==
    { bootOut.initializationTxs[name].txJSON.Fee : name \in InitializationTxNames }

\* n is an integer nearest to 1.5 times the open ledger fee
NearestToOneAndAHalf(n, openLedgerFee) == 2 * n - 3 * openLedgerFee \in -1..1

\* C22: when supplementGenerateWallet has returned, its three transactions
\* carry one and the same Fee, the text of 1.5 times the xrpOpenLedgerFee of
\* the fee information rounded to the nearest integer (15 for 10, 17 for 11),
\* and in every state the call has fetched the fee information at most once,
\* exactly once from the moment the key pair is there.
C22_OneRoundedFee ==
    /\ Len(bootCalls) <= 1
    /\ bootPc \in { "FEE_INFO", "DONE", "REJECTED" } => bootCalls = << GetFeeInfo >>
    /\ bootPc = "DONE" =>
          \E n \in 0..(2 * bootLocals.feeInfo.xrpOpenLedgerFee) :
             /\ InitializationTxFees = { IntText(n) }
             /\ NearestToOneAndAHalf(n, bootLocals.feeInfo.xrpOpenLedgerFee)
             /\ bootLocals.feeInfo.xrpOpenLedgerFee = 10 => n = 15
             /\ bootLocals.feeInfo.xrpOpenLedgerFee = 11 => n = 17

\* a call that has returned after fee information with the open ledger fee 11
C22_Witness ==
    /\ bootPc = "DONE"
    /\ bootLocals.feeInfo.xrpOpenLedgerFee = 11
    /\ InitializationTxFees = { <<"1", "7">> }
    /\ Len(bootCalls) = 1

-----------------------------------------------------------------------------
(* C23: the check of a root private key that is supplied *)

\* walletParams has a rootPrivateKey
RootPrivateKeySupplied(rootPrivateKey) == rootPrivateKey.type # "undefined"

\* a string of 64 hexadecimal digits, the encoding of 32 bytes
WellFormedRootPrivateKey(rootPrivateKey) ==
    /\ rootPrivateKey.type = "string"
    /\ rootPrivateKey.length = 64
    /\ rootPrivateKey.hexDigits

\* C23 as stated: a call with a rootPrivateKey that is not a string of 64
\* hexadecimal digits only ever throws, with no fee information requested and
\* no output; a call without rootPrivateKey goes on with the key generated.
C23_MalformedKeyThrows ==
    /\ (bootPc # "idle" /\ RootPrivateKeySupplied(bootIn.rootPrivateKey)
          /\ ~WellFormedRootPrivateKey(bootIn.rootPrivateKey))
       => /\ bootPc \in { "CALL", "THROWN" }
          /\ bootCalls = << >>
          /\ bootOut = NoWalletParams
    /\ (bootPc \in { "FEE_INFO", "DONE", "REJECTED" }
          /\ ~RootPrivateKeySupplied(bootIn.rootPrivateKey))
       => bootLocals.privateKey = bootIn.random

\* a call with the empty string for rootPrivateKey has returned the
\* transactions signed with the key generated
C23_Witness ==
    /\ bootIn.rootPrivateKey.type = "string"
    /\ bootIn.rootPrivateKey.length = 0
    /\ bootPc = "DONE"
    /\ bootOut.supplemented
    /\ bootLocals.privateKey = bootIn.random
    /\ bootCalls = << GetFeeInfo >>

-----------------------------------------------------------------------------
(* C30: the root address and the addresses of the keychains *)

\* the addresses of the user, backup and custodian keychains of the call
KeychainAddresses ==
    { bootLocals.userAddress, bootLocals.backupAddress, bootLocals.bitgoAddress }

\* C30 as stated: once the root key pair of a call is there, the root address
\* is none of the addresses of the three keychains, whether the key was
\* generated or supplied.
C30_RootAddressDistinct ==
    bootPc \in { "FEE_INFO", "DONE", "REJECTED" }
       => bootLocals.rootAddress \notin KeychainAddresses

\* a call with the private key of the user keychain as rootPrivateKey has
\* returned: the signer list is set on the address of the user keychain
C30_Witness ==
    /\ bootPc = "DONE"
    /\ RootPrivateKeyGiven(bootIn.rootPrivateKey)
    /\ bootLocals.rootAddress = bootLocals.userAddress
    /\ bootOut.initializationTxs.setMultisig.txJSON.Account = bootLocals.userAddress

\* what holds for the key generated: a call without rootPrivateKey has a root
\* address that is none of the addresses of the keychains
C30_GeneratedRootDistinct ==
    (bootPc \in { "FEE_INFO", "DONE", "REJECTED" }
        /\ ~RootPrivateKeyGiven(bootIn.rootPrivateKey))
       => bootLocals.rootAddress \notin KeychainAddresses

-----------------------------------------------------------------------------
(* C24: the secret the issued token is decrypted with *)

\* the extended private key a call of handleTokenIssuance that has returned
\* has worked with: the cached one, or the one it decrypted and hands back
XprvOfIssuance ==
    IF issIn.cachedXprv.some THEN issIn.cachedXprv.v ELSE issOut.ecdhXprv.v

\* what getECDHSecret computes for the private key of the client's derived
\* node and the public key of the server's derived node of the call
SecretOfGetECDHSecret ==
    GetECDHSecret([ eckey          |-> Some(<<XprvOfIssuance, issIn.responseBody.derivationPath.v>>),
                    otherPubKeyHex |-> Some(<<ServerXpub, issIn.responseBody.derivationPath.v>>) ]).secret

\* the password the token of the response was sealed under
TokenSealedUnder == issIn.responseBody.encryptedToken.v.password

\* C24 as stated: a call that returns a token has decrypted it with the
\* x-coordinate of the point of the two derived nodes, the value
\* getECDHSecret computes for the same key pair.
C24_SecretIsXCoordinate ==
    issPc = "returned" => TokenSealedUnder = SecretOfGetECDHSecret

\* C24: a call that returns a token has decrypted it with the hexadecimal
\* text of the encoded point serverDerivedPoint * clientDerivedScalar, both
\* nodes derived along the derivationPath of the response; that text is the
\* x-coordinate behind a leading byte, so it is never the value getECDHSecret
\* computes for the same key pair, and a token sealed under the x-coordinate
\* alone is not returned.
C24_SecretIsEncodedPoint ==
    issPc = "returned" =>
       /\ TokenSealedUnder = "04:" \o SecretOfGetECDHSecret
       /\ TokenSealedUnder # SecretOfGetECDHSecret
       /\ issOut.token = issIn.responseBody.encryptedToken.v.plaintext

\* a call has returned the token of a response sealed under the encoded point
C24_Witness ==
    /\ issPc = "returned"
    /\ issOut.token = "v2xIssuedToken"
    /\ issIn.cachedXprv.some
    /\ TokenSealedUnder = "04:xpubServer:m/1:xprvClient:m/1"

-----------------------------------------------------------------------------
(* C25: the session after a logout *)

\* the request of the call carries nothing made of a token
NoCredentialSent ==
    /\ wire.headers.Authorization.set
          => wire.headers.Authorization.v.credential.kind = "null"
    /\ ~wire.headers.HMAC.set

\* C25 as stated: when a logout has resolved, the object holds no token, no
\* refresh token, no user and no ECDH private key, and the request of the
\* call that follows carries no credential.
C25_LogoutClearsSession ==
    /\ (call.op = "logout" /\ call.state = "resolved")
          => /\ token = None
             /\ refreshToken = None
             /\ user = None
             /\ sessEcdhXprv = None
    /\ (call.previous = <<"logout", "resolved">> /\ call.dispatched >= 1)
          => NoCredentialSent

\* a logout has resolved on an object that had an ECDH private key: the
\* token is gone, the key is still there
C25_Witness ==
    /\ call.op = "logout"
    /\ call.state = "resolved"
    /\ token = None /\ refreshToken = None /\ user = None
    /\ sessEcdhXprv = Some("xprvClient")

\* what holds after a logout that has resolved: token, refresh token and
\* user are gone, and the request of the call that follows carries no
\* credential
C25_TokensCleared ==
    /\ (call.op = "logout" /\ call.state = "resolved")
          => /\ token = None
             /\ refreshToken = None
             /\ user = None
    /\ (call.previous = <<"logout", "resolved">> /\ call.dispatched >= 1)
          => NoCredentialSent

-----------------------------------------------------------------------------
(* C27: a request is sent once *)

-----------------------------------------------------------------------------
(* C28: addAccessToken, verification and decryption *)

\* the part of C28 about a client without ECDH private key: the request is
\* forced to the old method, nothing is decrypted, and the body the call
\* resolves with carries the warning and no decrypted token
DowngradeWithoutKey ==
    (call.op = "addAccessToken" /\ ~sessEcdhXprv.some)
       => /\ req.forceV1Auth
          /\ ~req.isV2Authenticated
          /\ call.decrypted = 0
          /\ call.state = "resolved"
                => call.result.warning /\ ~call.result.token.some

\* C28 as stated: addAccessToken decrypts or returns a token only for a
\* response whose HMAC was compared and found to match, never for one that
\* failed the comparison; without cached ECDH private key the request is
\* downgraded, nothing is decrypted and the response carries the warning.
C28_TokenOnlyFromVerified ==
    /\ (call.op = "addAccessToken"
          /\ (call.decrypted >= 1 \/ call.result.token.some))
          => verdict.outcome = "returned" /\ verdict.compared
    /\ (call.op = "addAccessToken" /\ verdict.outcome = "thrown")
          => call.decrypted = 0 /\ ~call.result.token.some
    /\ DowngradeWithoutKey

\* addAccessToken on an object without token that still has an ECDH private
\* key has resolved with a token decrypted from an answer put in by the
\* network, whose HMAC nothing compared
C28_Witness ==
    /\ call.op = "addAccessToken"
    /\ call.state = "resolved"
    /\ token = None
    /\ sessEcdhXprv.some
    /\ response.text = ReplayedText
    /\ ~response.hmac.set
    /\ ~verdict.compared
    /\ call.result.token = Some("v2xReplayedToken")

\* what holds: decryption comes after both calls of verifyResponse have
\* returned, the HMAC is compared whenever the request was sent in v2 mode
\* with a token, a response that fails the comparison yields no token, and a
\* client without ECDH private key is downgraded
C28_VerifyPrecedesDecrypt ==
    /\ (call.op = "addAccessToken"
          /\ (call.decrypted >= 1 \/ call.result.token.some))
          => /\ verdict.outcome = "returned"
             /\ call.verified = 1 /\ call.reverified = 1
             /\ (req.isV2Authenticated /\ token.some) => verdict.compared
    /\ (call.op = "addAccessToken" /\ verdict.outcome = "thrown")
          => call.decrypted = 0 /\ ~call.result.token.some
    /\ DowngradeWithoutKey

-----------------------------------------------------------------------------
(* C26: the cache of constants *)

\* at the time of the read made last the environment had an entry that had
\* not expired
EntryUnexpiredAtRead ==
    constantsRead.expire.some /\ constantsRead.time < constantsRead.expire.v

\* a read of the cache: a call of fetchConstants or getConstants as it returns
IsRead == constantsRead.source \in { "cache", "pending", "defaults" }

\* the entry of the environment is the object the server sent, nothing kept
\* of the entry before
ReplacedWholesale ==
    constantsRead.source = "server"
       => /\ constants[constantsRead.env] = constantsRead.value
          /\ constantsExpire[constantsRead.env] = constantsRead.expire

\* C26 as stated: a read, by fetchConstants or by getConstants, is given a
\* cached value only while the time is before the expiry of the entry; a read
\* that finds no unexpired entry makes a request; and a request answered
\* replaces the entry by the constants of the answer.
C26_ServedOnlyUnexpired ==
    /\ constantsRead.source = "cache" => EntryUnexpiredAtRead
    /\ IsRead => (constantsRead.fetching <=> ~EntryUnexpiredAtRead)
    /\ ReplacedWholesale

\* C26: fetchConstants is given the cached value only while the time is
\* before the expiry of the entry; getConstants is given the defaults with
\* the keys of the cached entry laid over them, whether the entry has expired
\* or not; either read makes a request exactly when it finds no unexpired
\* entry; and a request answered replaces the entry by the constants of the
\* answer, with the expiry at the time of the answer plus its ttl.
C26_TtlBoundedFetch ==
    /\ (constantsRead.op = "fetchConstants" /\ constantsRead.source = "cache")
          => /\ EntryUnexpiredAtRead
             /\ constantsRead.value = constants[constantsRead.env]
    /\ constantsRead.op = "getConstants"
          => constantsRead.value =
                Some(Merge(DefaultConstants, constants[constantsRead.env]))
    /\ IsRead => (constantsRead.fetching <=> ~EntryUnexpiredAtRead)
    /\ ReplacedWholesale
    /\ constantsRead.source = "server"
          => constantsRead.expire.v \in { constantsRead.time + ttl : ttl \in Ttls }

\* getConstants has returned the constants of an entry that had expired, and
\* has made a request
C26_Witness ==
    /\ constantsRead.op = "getConstants"
    /\ constantsRead.source = "cache"
    /\ constantsRead.expire.some
    /\ constantsRead.time >= constantsRead.expire.v
    /\ constantsRead.fetching
    /\ constantsRead.value = Some([maxFee |-> Some(2), minFeeRate |-> Some(5)])

-----------------------------------------------------------------------------
(* C29: generateWallet posts the wallet last *)

\* the requests for the wallet made so far
WalletRequests == { r \in genRequests : r.route = "/wallet" }

\* C29: a request for the wallet is made only when the user, backup and
\* custodian keychain promises are all fulfilled and supplementGenerateWallet
\* has returned walletParams; it is one request, for a wallet with m = 2,
\* n = 3 and the ids of the user, backup and custodian keychains in this
\* order; when a keychain promise fails or the supplement fails, the call is
\* rejected and no request for the wallet is made.
C29_WalletPostedLast ==
    /\ Cardinality(WalletRequests) <= 1
    /\ \A r \in WalletRequests :
          /\ KeychainsJoined(genKeychains)
          /\ genPc \in { "POST", "DONE", "REJECTED" }
          /\ r.body.supplemented
          /\ r.body.m = 2 /\ r.body.n = 3
          /\ r.body.keys = << genKeychains.user.id, genKeychains.backup.id,
                              genKeychains.bitgo.id >>
          /\ \A role \in Roles : genKeychains[role].id \in KeychainIds
    /\ KeychainsRejected(genKeychains) => WalletRequests = {}
    /\ genOut.error \in { "keychain", "supplement" } => WalletRequests = {}
    /\ genPc \in { "CALL", "KEYCHAINS", "SUPPLEMENT", "THROWN" } => WalletRequests = {}
    /\ genPc \in { "POST", "DONE" } => WalletRequests # {}

\* a call has resolved after the request for the wallet with the keys of the
\* three keychains
C29_Witness ==
    /\ genPc = "DONE"
    /\ \E r \in WalletRequests :
          /\ r.body.m = 2 /\ r.body.n = 3
          /\ r.body.keys = << "id2", "id1", "id3" >>
          /\ r.body.supplemented
    /\ genKeychains.user.id = "id2"
    /\ genKeychains.backup.id = "id1"

-----------------------------------------------------------------------------
(* explainTransaction: the two forms of input (C31) *)

\* the text given was the encoding, or the JSON text, of a transaction
GivenATransaction == explIn.form \in { "hex", "json" } /\ explIn.value \in ExplainTransactions

\* the call returned an explanation of the transaction in the text
ExplainedAsGiven ==
    /\ ~explOut.result.threw
    /\ explOut.result.value.id = TransactionHash([txJSON |-> explIn.value, text |-> explIn])
    /\ Len(explOut.result.value.outputs) = 1
    /\ explOut.result.value.outputs[1].amount = explIn.value.Amount
    /\ explOut.result.value.outputAmount = explIn.value.Amount
    /\ explOut.result.value.fee.miner = explIn.value.Fee

-----------------------------------------------------------------------------
(* recover: the Amount of the transaction returned (C36) *)

\* the text of an integer greater than 0, as toFixed(0) writes it
PositiveIntegerText(text) == Len(text) > 0 /\ text[1] \notin { "-", "0" }

\* the fetched balance does not exceed baseReserve + 5 * incrementalReserve
BalanceWithinReserve ==
    \/ recLocals.recoverableBalance.units < 0
    \/ recLocals.recoverableBalance = BigNumber(0)

\* C36: every transaction returned by recover has an Amount greater than 0;
\* with a balance that does not exceed the reserve no transaction is returned
C36_AmountPositive ==
    recOut.resolved => PositiveIntegerText(recOut.txHex.txJSON.Amount)

\* recover has returned a transaction for a balance equal to the reserve
C36_Witness ==
    /\ recOut.resolved
    /\ ledger.account_data.Balance = 45000000
    /\ ledger.validated_ledger = DefaultValidatedLedger
    /\ BalanceWithinReserve
    /\ recOut.txHex.txJSON.Amount = <<"0">>

-----------------------------------------------------------------------------
(* recover: the signers of the transaction returned (C37) *)

\* the accounts of the signer list fetched from the ledger
OnLedgerSigners ==
    { ledger.account_data.signer_lists[1].SignerEntries[i].Account :
        i \in 1..Len(ledger.account_data.signer_lists[1].SignerEntries) }

\* the accounts that signed the transaction returned
ReturnedSigners ==
    { recOut.txHex.Signers[i].Account : i \in 1..Len(recOut.txHex.Signers) }

\* C37: every transaction returned by recover is signed by two different
\* signers of the on-ledger list; recover does not return when the user key
\* and the backup key derive the same address
C37_TwoDistinctSigners ==
    recOut.resolved =>
        /\ Cardinality(ReturnedSigners) = 2
        /\ ReturnedSigners \subseteq OnLedgerSigners
        /\ DeriveAddress(recIn.userKey) # DeriveAddress(recIn.backupKey)

\* recover has returned with the user key given as the backup key as well
C37_Witness ==
    /\ recOut.resolved
    /\ recIn.userKey = recIn.backupKey
    /\ ReturnedSigners = { DeriveAddress(recIn.userKey) }

-----------------------------------------------------------------------------
(* recover: the destination of the transaction returned (C38) *)

-----------------------------------------------------------------------------
(* recover and the session of the BitGo object (C35) *)

\* the request that went out carries a credential made from the session token
CarriesCredential(c) ==
    c.wire.sent /\ (c.wire.headers.Authorization.set \/ c.wire.headers.HMAC.set)

\* C35: the calls of recover to the ledger node carry no credential made from
\* the session token, their answers are not put to the HMAC check of the
\* custodial server, and recover goes on or fails by the ledger node's answers
\* alone: it is rejected only when a request failed, whatever the session
C35_SessionIndependent ==
    /\ \A m \in DOMAIN ledgCalls :
          /\ ~CarriesCredential(ledgCalls[m])
          /\ ~ledgCalls[m].verdict.compared
    /\ ledgOut.state = "rejected"
          => \E m \in DOMAIN ledgCalls : ledgCalls[m].state = "failed"

\* with a v2 token in the session, the ledger node has answered all three
\* requests and recover is rejected with status 511
C35_Witness ==
    /\ token = Some("v2xTokenA")
    /\ \A m \in RippledCalls : ledgCalls[m].state = "thrown"
    /\ ledgOut = [state |-> "rejected", status |-> 511]

\* with a legacy token in the session, the token itself went to the ledger node
LegacyTokenSentToLedgerNode ==
    /\ token = Some("legacy40Token")
    /\ \E m \in RippledCalls :
          /\ ledgCalls[m].wire.sent
          /\ ledgCalls[m].wire.headers.Authorization
                = SetTo(Bearer(RawText("legacy40Token")))
    /\ ledgOut.state = "spread"

\* without a token the same answers let recover go on
NoTokenGoesOn ==
    /\ token = None
    /\ \A m \in RippledCalls : ledgCalls[m].state = "returned"
    /\ ledgOut.state = "spread"

-----------------------------------------------------------------------------
(* generateWallet: what the request for the wallet carries (C34) *)

\* C34: the request for the wallet never carries the root private key; for an
\* XRP wallet it carries the root public key and the three initialization
\* transactions, whether the root key was generated or given by the caller
C34_RootKeyNeverPosted ==
    \A r \in WalletRequests :
        /\ ~r.body.rootPrivateKey.some
        /\ r.body.rootPub.some
        /\ r.body.initializationTxs = InitializationTxNames

\* the wallet was asked for with a root key given by the caller
C34_Witness ==
    /\ genIn.rootPrivateKey = "rootKeyGiven"
    /\ genPc = "DONE"
    /\ \E r \in WalletRequests :
          /\ r.body.rootPrivateKey = Some("rootKeyGiven")
          /\ r.body.rootPub = Some(PublicKeyOf("rootKeyGiven"))

\* with a generated root key the request carries the public key and the
\* transactions only
GeneratedRootKeyNotPosted ==
    genIn.rootPrivateKey = "" =>
        \A r \in WalletRequests :
            /\ ~r.body.rootPrivateKey.some
            /\ r.body.rootPub = Some(PublicKeyOf(GeneratedRootKey))
            /\ r.body.initializationTxs = InitializationTxNames

-----------------------------------------------------------------------------
(* fetchConstants: the entry of an environment and its expiry (C40) *)

\* the entry or the expiry of environment e changes in the step
EntryChanges(e) ==
    constants'[e] # constants[e] \/ constantsExpire'[e] # constantsExpire[e]

\* in the step, the entry of e and its expiry are both assigned from one
\* answer to a request that was made for e
AssignedFromOneAnswer(e) ==
    /\ \E i \in 1..Len(constantFetches) : constantFetches[i] = e
    /\ \E result \in [ constants : ServerConstants, ttl : Ttls ] :
          /\ constants'[e] = Some(result.constants)
          /\ constantsExpire'[e] = Some(now + result.ttl)
          /\ constantsRead'.source = "server"
          /\ constantsRead'.env = e
          /\ constantsRead'.value = constants'[e]
          /\ constantsRead'.expire = constantsExpire'[e]

\* C40: under every interleaving of fetchConstants calls and answers, the
\* cached entry of an environment and its expiry are only ever assigned
\* together, from one answer to a request for that environment, and the
\* entry and expiry of every other environment stay as they are
C40_EntryAndExpiryTogether ==
    [][ \A e \in Envs :
          EntryChanges(e) =>
              /\ AssignedFromOneAnswer(e)
              /\ \A other \in Envs \ { e } : ~EntryChanges(other) ]_vars

\* an answer for an environment has been stored while another request for
\* the same environment and moment is still without answer
C40_Witness ==
    /\ constantsRead.source = "server"
    /\ constantsRead.time = now
    /\ constants[constantsRead.env].some
    /\ Len(constantFetches) = 1
    /\ constantFetches[1] = constantsRead.env

-----------------------------------------------------------------------------
(* authenticate: what a failed login leaves behind (C33) *)

\* the call of authenticate failed after the login response had arrived
FailedAfterResponse == authCall.pc = "rejected" /\ authCall.responded

\* C33: when authenticate fails after the login response has arrived, the
\* session is as it was before the call: no token, no ECDH private key and
\* no user have been installed, and a later authenticate is not refused as
\* 'already logged in'
C33_FailedLoginLeavesSession ==
    /\ FailedAfterResponse => SessionFields = authCall.before
    /\ (authCall.error = "already logged in" /\ authCall.previousError # "")
          => authCall.previousError \in { "already logged in", "request failed" }

\* the login failed on the HMAC of its response and the token of that
\* response is held
C33_Witness ==
    /\ FailedAfterResponse
    /\ authCall.error = "invalid response HMAC"
    /\ ~authCall.before.token.some
    /\ token = Some("v2xIssuedToken")
    /\ user = Some("userOfNetwork")

\* the next authenticate was refused as 'already logged in' after a login
\* that had failed on the HMAC of its response
RefusedAfterFailedLogin ==
    /\ authCall.error = "already logged in"
    /\ authCall.previousError = "invalid response HMAC"

\* a login that failed on a missing encryptedECDHXprv or on a decryption
\* leaves no token behind
NoTokenAfterDecryptionFailure ==
    (FailedAfterResponse /\ authCall.error # "invalid response HMAC")
        => token = authCall.before.token /\ sessEcdhXprv = authCall.before.ecdhXprv

-----------------------------------------------------------------------------
(* authenticate on a session that holds a token (C39) *)

\* C39: authenticate called while the session holds a token is rejected with
\* 'already logged in' without a login request and without a change of the
\* session (token, refresh token, user, ECDH key, extension key), also when
\* the call asks for an extensible session
C39_AlreadyLoggedInChangesNothing ==
    authCall.error = "already logged in" =>
        /\ authCall.requests = 0
        /\ SessionFields = authCall.before

\* a call asking for an extensible session was rejected as 'already logged
\* in' and the extension key is another one than before
C39_Witness ==
    /\ authCall.error = "already logged in"
    /\ authCall.params.extensible
    /\ authCall.requests = 0
    /\ authCall.before.extensionKey = Some(RandomKey(0))
    /\ extensionKey # authCall.before.extensionKey

\* apart from the extension key, the rejected call changes nothing
RejectedCallKeepsTokens ==
    authCall.error = "already logged in" =>
        /\ authCall.requests = 0
        /\ token = authCall.before.token
        /\ refreshToken = authCall.before.refreshToken
        /\ user = authCall.before.user
        /\ sessEcdhXprv = authCall.before.ecdhXprv
        /\ (~authCall.params.extensible => extensionKey = authCall.before.extensionKey)

-----------------------------------------------------------------------------
(* A request in flight while the session changes (C32) *)

\* the request went out signed with the session token of that moment
SignedWithToken == wire.sent /\ wire.token.some /\ wire.headers.HMAC.set

\* C32: the response to a request that was signed with a session token is
\* verified against that token before it is handed on, whatever calls change
\* or clear the token while the request is in flight: it is never verified
\* against another token and never handed on without verification
C32_VerifiedAgainstSendToken ==
    (SignedWithToken /\ verdict.outcome # "none")
        => verdict.compared /\ token = wire.token

\* a signed request's response, rewritten on its way, has been handed on
\* without verification after the token was cleared
C32_Witness ==
    /\ SignedWithToken
    /\ token = None
    /\ response # served.response
    /\ verdict.outcome = "returned"
    /\ ~verdict.compared

\* the answer of the server to a signed request was rejected because it was
\* verified against a token set while the request was in flight
VerifiedAgainstOtherToken ==
    /\ SignedWithToken
    /\ token.some /\ token # wire.token
    /\ response = served.response
    /\ served.signedPath = QueryPath(UrlParse(wire.url))
    /\ verdict = [outcome |-> "thrown", status |-> 511, compared |-> TRUE]

\* with the token unchanged, a signed request's response is compared
UnchangedTokenIsCompared ==
    (SignedWithToken /\ verdict.outcome # "none" /\ token = wire.token)
        => verdict.compared

====
